---- MODULE Spec2Model ----
(***************************************************************************)
(* Model of the gesture-universe recognition pipeline:                     *)
(*   capture thread  --frame_q-->  recognition worker  --recognized_q-->   *)
(*   frame compositor  --composited_q-->  display sink                     *)
(* and of the compositor's adaptive cadence control (adjust_interval).     *)
(*                                                                         *)
(* Units.  Durations are integers in nanoseconds (the resolution of        *)
(* std::time::Duration).  Confidences are integers in thousandths          *)
(* (0.2 = 200, 0.5 = 500).  Factors are integers in hundredths             *)
(* (1.25 = 125, 0.85 = 85).  A frame is identified by its capture          *)
(* timestamp, the index of the capture-loop iteration that produced it     *)
(* (Instant::now() is taken once per iteration, camera.rs:163).            *)
(***************************************************************************)
EXTENDS Integers, Sequences, FiniteSets, TLC

(***************************************************************************)
(* Bounds of the model.                                                    *)
(***************************************************************************)
\* number of frames the capture thread produces in a run
MaxFrames == 4
\* number of free cadence cycles (any compose time, any drop) in Cadence
MaxCycles == 4

(***************************************************************************)
(* Program constants.                                                      *)
(***************************************************************************)
\* main.rs:18  bounded(1): capture thread -> recognition worker
FRAME_CHANNEL_CAP == 1
\* compositor.rs:28  bounded(1): compositor -> display
COMPOSITED_CHANNEL_CAP == 1
\* worker -> compositor channel; it is created by the UI shell (not part of
\* the pipeline sources); section 5 of the specification: capacity 1
RECOGNIZED_CHANNEL_CAP == 1

MAX_COMPOSITED_FPS == 30
MIN_COMPOSITED_FPS == 12
\* 1.25, in hundredths
SLOWDOWN_FACTOR == 125
\* 0.85, in hundredths
RECOVERY_FACTOR == 85
\* the margin 1.5 of adjust_interval (compositor.rs:100), in hundredths
COMFORT_MARGIN == 150
\* 0.5, in thousandths
OVERLAY_CONFIDENCE_THRESHOLD == 500
\* build_gesture_result's has_detection floor 0.2, in thousandths
DETECTION_FLOOR == 200
\* gesture.rs:8, 0.2 in thousandths
MIN_CONFIDENCE == 200
\* number of hand landmarks classify requires (gesture.rs:33)
LANDMARK_COUNT == 21
\* nanoseconds per millisecond (Duration::from_millis)
NANOS_PER_MILLI == 1000000

\* compositor_loop: Duration::from_millis(1_000 / MAX_COMPOSITED_FPS)
min_interval == (1000 \div MAX_COMPOSITED_FPS) * NANOS_PER_MILLI
\* compositor_loop: Duration::from_millis(1_000 / MIN_COMPOSITED_FPS)
max_interval == (1000 \div MIN_COMPOSITED_FPS) * NANOS_PER_MILLI

(***************************************************************************)
(* Inputs drawn by the environment.                                        *)
(***************************************************************************)
\* measured compose times (Instant::elapsed around the drawing calls)
ComposeTimes ==
    { 1 * NANOS_PER_MILLI, 20 * NANOS_PER_MILLI, 25 * NANOS_PER_MILLI,
      40 * NANOS_PER_MILLI, 70 * NANOS_PER_MILLI, 90 * NANOS_PER_MILLI }
\* compose times seen by the compositor thread of the pipeline
PipelineComposeTimes == { 1 * NANOS_PER_MILLI, 90 * NANOS_PER_MILLI }
\* effective confidences of a decoded hand, around both thresholds
ConfLevels == { 199, 200, 499, 500 }

\* Option<T>: None is the empty set, Some(v) is {v}
NoneVal == {}
Some(v) == {v}

VARIABLES
    captured,        \* capture thread: number of frames stamped and sent so far
    frame_q,         \* channel capture -> worker (bounded(1))
    worker_pc,       \* run_worker_loop position: "recv", "drain", "infer"
    worker_frame,    \* recv_latest_frame's local `frame`
    last_inferred,   \* history: the frame most recently passed to engine.infer
    recognized_q,    \* channel worker -> compositor
    comp_pc,         \* compositor_loop position: "recv", "drain", "compose"
    recognized,      \* compositor_loop's local `recognized`
    last_received,   \* history: the frame the compositor received most recently
    composed,        \* history: the set of frames composed
    discarded,       \* history: frames the compositor's drain overwrote
    dropped_frame,   \* compositor_loop's `dropped_frame` of the latest cycle
    target_interval, \* compositor_loop's `target_interval`
    composited_q,    \* channel compositor -> display (bounded(1))
    last_taken,      \* history: the frame the display sink took most recently
    cad_phase,       \* Cadence: "free", "hold" ("off" in the pipeline)
    cad_cycles,      \* Cadence: free cycles done
    cad_compose,     \* Cadence: compose time of the latest cycle, or the one held
    cad_base,        \* Cadence: target_interval when the hold began
    cad_n,           \* Cadence: hold cycles done (0, 1, then 2 and 3 alternate)
    hand,            \* the hand whose landmarks are passed to classify
    call,            \* the latest classify call's arguments (None before one)
    classified,      \* the latest classify call's return value
    update_in,       \* the latest MotionTracker::update call's arguments
    motion,          \* the latest MotionTracker::update call's return value
    history,         \* MotionTracker.history
    clock,           \* the timestamp of the latest call, ms
    calls,           \* classify / update calls made
    tracker,         \* HandTracker.last
    trk_prev,        \* HandTracker.last before the latest HandTracker::update
    trk_call,        \* the latest HandTracker::update call's arguments
    trk_read,        \* the latest estimate_roi call: its `now` and its return
    trk_now,         \* the timestamp of the latest tracker / infer call, ms
    trk_calls,       \* tracker / infer calls made
    infer_in,        \* the latest infer call: what the detector and model did
    infer_out,       \* the latest infer call's return value
    palm_seen,       \* history: timestamp of the latest frame with a palm region
    fallback_run,    \* history: tracker updates from fallback crops in a row
    failed,          \* history: the frames for which engine.infer returned Err
    frame_tx_live,   \* some Sender<Frame> of the capture -> worker channel exists
    queued_at_drop,  \* history: the frame queued when the last sender dropped
    display_rx_live, \* the display's Receiver<CompositedFrame> exists
    failed_publishes, \* history: publishes that failed on a disconnected channel
    setup_failed,    \* history: start_worker returned before run_worker_loop
    camera_pc,       \* capture thread: "check" (loop condition), "iter", "exited"
    stop,            \* CameraStream.stop, the AtomicBool
    stop_pc,         \* CameraStream::stop / drop: "idle", "joining", "returned"
    sent_at_stop     \* history: frames sent when the stop flag was set

camVars == << camera_pc, stop, stop_pc, sent_at_stop >>
lifeVars ==
    << frame_tx_live, queued_at_drop, display_rx_live, failed_publishes,
       setup_failed, camVars >>
pipeVars ==
    << captured, frame_q, worker_pc, worker_frame, last_inferred, recognized_q,
       comp_pc, recognized, last_received, composed, discarded,
       dropped_frame, composited_q, last_taken, failed, lifeVars >>
cadVars == << cad_phase, cad_cycles, cad_compose, cad_base, cad_n >>
gestVars == << hand, call, classified, update_in, motion, history, clock, calls >>
trkVars ==
    << tracker, trk_prev, trk_call, trk_read, trk_now, trk_calls, infer_in,
       infer_out, palm_seen, fallback_run >>
vars == << pipeVars, target_interval, cadVars, gestVars, trkVars >>

(***************************************************************************)
(* Helpers.                                                                *)
(***************************************************************************)
MinOf(a, b) == IF a <= b THEN a ELSE b
MaxOf(a, b) == IF a >= b THEN a ELSE b

\* Duration::from_secs_f64(d.as_secs_f64() * factor): the product in
\* nanoseconds, rounded to the nearest nanosecond (an exact half rounds up
\* here; in the code the f64 error of the product decides such a tie).
\* x = 100 q + r keeps the intermediate values inside 32 bits.
ScaleDuration(x, pct) ==
    (x \div 100) * pct + (((x % 100) * pct + 50) \div 100)
\* floor(x * pct / 100); for an integer y, x * pct / 100 < y exactly when
\* ScaleFloor(x, pct) < y
ScaleFloor(x, pct) ==
    (x \div 100) * pct + (((x % 100) * pct) \div 100)

(***************************************************************************)
(* crossbeam_channel bounded channel.                                      *)
(***************************************************************************)
\* Sender::try_send: Ok when there is room; Err(Full) otherwise
TrySendOk(q, cap) == Len(q) < cap
\* variant: a send that never reports Full and queues behind what is there
TrySend_unbounded(q, cap, x) == Append(q, x)
\* variant: a send that overwrites the message already in a full queue
TrySend_replace(q, cap, x) ==
    IF TrySendOk(q, cap) THEN Append(q, x) ELSE Append(Tail(q), x)
\* the queue after try_send(x): on Err(Full) the message x is handed back to
\* the caller (and dropped by `let _ =`); the queue is untouched
TrySend(q, cap, x) == IF TrySendOk(q, cap) THEN Append(q, x) ELSE q
\* variant: only a full queue makes try_send fail
TrySendErr_full_only(q, cap, receiver_live) == ~TrySendOk(q, cap)
\* try_send(x).is_err(): Err(Full) or, with every receiver dropped,
\* Err(Disconnected)
TrySendErr(q, cap, receiver_live) == ~receiver_live \/ ~TrySendOk(q, cap)
\* Receiver::recv / try_recv: messages leave in FIFO order
RecvMsg(q) == Head(q)
RecvRest(q) == Tail(q)
\* variant: recv fails as soon as the senders are gone, queued or not
RecvDisconnected_at_once(q, senders_live) == ~senders_live
\* Receiver::recv returns Err: the channel is empty and every sender has been
\* dropped (messages still queued are received first)
RecvDisconnected(q, senders_live) == q = << >> /\ ~senders_live

(***************************************************************************)
(* Capture thread (pipeline/camera.rs, start_camera_stream).               *)
(***************************************************************************)
\* variant: Instant::now() read once, before the capture loop
frame_timestamp_hoisted(k) == 1
\* let frame_timestamp = Instant::now();  -- the k-th stamped frame
frame_timestamp(k) == k

\* one iteration of the capture loop that reads and decodes a frame:
\* stamp it, then `let _ = recog_tx.try_send(frame)`
CameraCapture ==
    /\ frame_tx_live
    /\ camera_pc = "check" /\ ~stop
    /\ captured < MaxFrames
    /\ captured' = captured + 1
    /\ frame_q' = TrySend(frame_q, FRAME_CHANNEL_CAP, frame_timestamp(captured + 1))
    /\ UNCHANGED << worker_pc, worker_frame, last_inferred, recognized_q, comp_pc,
                    recognized, last_received, composed, discarded,
                    dropped_frame, composited_q, last_taken, target_interval, cadVars,
                    gestVars, trkVars, failed, lifeVars >>

(***************************************************************************)
(* Recognition worker (pipeline/recognizer/mod.rs).                        *)
(***************************************************************************)
\* HandposeEngine::infer results.  Err: crop, session or decode failure.
\* Ok without a region: no landmarks, confidence 0.  Ok with a decoded hand:
\* 21 landmarks, any effective confidence; palm_regions is empty on the
\* tracker-fallback path.
InferErr == [ok |-> FALSE]
InferOutputs ==
    { [ok |-> TRUE, raw_landmarks |-> 0, projected_landmarks |-> 0,
       confidence |-> 0, palm_regions |-> p] : p \in {0} }
    \cup
    { [ok |-> TRUE, raw_landmarks |-> LANDMARK_COUNT,
       projected_landmarks |-> LANDMARK_COUNT,
       confidence |-> c, palm_regions |-> p] : c \in ConfLevels, p \in {0, 1} }
InferOutcomes == {InferErr} \cup InferOutputs

\* GestureClassifier::classify returns Some(detail) or None
classify_some_above(raw_landmarks, projected_landmarks, confidence) ==
    IF confidence <= MIN_CONFIDENCE THEN FALSE
    ELSE IF raw_landmarks < LANDMARK_COUNT \/ projected_landmarks < LANDMARK_COUNT
         THEN FALSE
    ELSE TRUE

classify_some(raw_landmarks, projected_landmarks, confidence) ==
    IF confidence < MIN_CONFIDENCE THEN FALSE
    ELSE IF raw_landmarks < LANDMARK_COUNT \/ projected_landmarks < LANDMARK_COUNT
         THEN FALSE
    ELSE TRUE

\* GestureResult.label: the gesture's emoji and display name when there is a
\* detail, else one of two fixed texts
GESTURE_LABEL == "gesture"
HAND_DETECTED_LABEL == "hand detected"
NO_HAND_LABEL == "no hand detected"

\* variant: any decoded hand counts as a detection
build_gesture_result_any_hand(output, frame) ==
    LET has_detection == output.projected_landmarks > 0
        detail == IF has_detection
                  THEN classify_some(output.raw_landmarks,
                                     output.projected_landmarks,
                                     output.confidence)
                  ELSE FALSE
    IN  [ label        |-> IF detail THEN GESTURE_LABEL
                           ELSE IF has_detection THEN HAND_DETECTED_LABEL
                           ELSE NO_HAND_LABEL,
          confidence   |-> output.confidence,
          timestamp    |-> frame,
          landmarks    |-> IF has_detection THEN Some(output.projected_landmarks)
                           ELSE NoneVal,
          detail       |-> detail,
          palm_regions |-> output.palm_regions ]

\* variant: the result stamped when it is built, not with the frame's time
build_gesture_result_stamp_built(output, frame) ==
    LET has_detection == output.confidence >= DETECTION_FLOOR
        detail == IF has_detection
                  THEN classify_some(output.raw_landmarks,
                                     output.projected_landmarks,
                                     output.confidence)
                  ELSE FALSE
    IN  [ label        |-> IF detail THEN GESTURE_LABEL
                           ELSE IF has_detection THEN HAND_DETECTED_LABEL
                           ELSE NO_HAND_LABEL,
          confidence   |-> output.confidence,
          timestamp    |-> frame + 1,
          landmarks    |-> IF has_detection THEN Some(output.projected_landmarks)
                           ELSE NoneVal,
          detail       |-> detail,
          palm_regions |-> output.palm_regions ]

\* build_gesture_result(output, frame, classifier)
build_gesture_result(output, frame) ==
    LET has_detection == output.confidence >= DETECTION_FLOOR
        detail == IF has_detection
                  THEN classify_some(output.raw_landmarks,
                                     output.projected_landmarks,
                                     output.confidence)
                  ELSE FALSE
    IN  [ label        |-> IF detail THEN GESTURE_LABEL
                           ELSE IF has_detection THEN HAND_DETECTED_LABEL
                           ELSE NO_HAND_LABEL,
          confidence   |-> output.confidence,
          timestamp    |-> frame,
          landmarks    |-> IF has_detection THEN Some(output.projected_landmarks)
                           ELSE NoneVal,
          detail       |-> detail,
          palm_regions |-> output.palm_regions ]

\* recv_latest_frame: `frame = newer`
frame_after_drain(frame, newer) == newer

\* recv_latest_frame: `frame_rx.recv()` got a frame
WorkerRecv ==
    /\ worker_pc = "recv"
    /\ frame_q # << >>
    /\ worker_frame' = RecvMsg(frame_q)
    /\ frame_q' = RecvRest(frame_q)
    /\ worker_pc' = "drain"
    /\ UNCHANGED << captured, last_inferred, recognized_q, comp_pc, recognized,
                    last_received, composed, discarded,
                    dropped_frame, composited_q, last_taken, target_interval, cadVars,
                    gestVars, trkVars, failed, lifeVars >>

\* recv_latest_frame: `while let Ok(newer) = frame_rx.try_recv() { frame = newer }`
WorkerDrainNewer ==
    /\ worker_pc = "drain"
    /\ frame_q # << >>
    /\ worker_frame' = frame_after_drain(worker_frame, RecvMsg(frame_q))
    /\ frame_q' = RecvRest(frame_q)
    /\ UNCHANGED << captured, worker_pc, last_inferred, recognized_q, comp_pc,
                    recognized, last_received, composed, discarded,
                    dropped_frame, composited_q, last_taken, target_interval, cadVars,
                    gestVars, trkVars, failed, lifeVars >>

\* recv_latest_frame: try_recv found the channel empty; Some(frame) is returned
WorkerDrainDone ==
    /\ worker_pc = "drain"
    /\ frame_q = << >>
    /\ worker_pc' = "infer"
    /\ UNCHANGED << captured, frame_q, worker_frame, last_inferred, recognized_q,
                    comp_pc, recognized, last_received, composed, discarded,
                    dropped_frame, composited_q, last_taken,
                    target_interval, cadVars,
                    gestVars, trkVars, failed, lifeVars >>

\* variant: the Err arm retries the same frame
after_infer_retry(outcome) == IF outcome.ok THEN "recv" ELSE "infer"
\* where run_worker_loop goes after the match on infer's result: both arms
\* fall through to the next recv_latest_frame
after_infer(outcome) == "recv"

\* run_worker_loop body: engine.infer(&frame); on Ok build the result and
\* `let _ = result_tx.try_send(recognized)`; on Err only log
WorkerInfer(outcome) ==
    /\ worker_pc = "infer"
    /\ last_inferred' = worker_frame
    /\ recognized_q' =
         IF outcome.ok
         THEN TrySend(recognized_q, RECOGNIZED_CHANNEL_CAP,
                      [ frame  |-> worker_frame,
                        result |-> build_gesture_result(outcome, worker_frame) ])
         ELSE recognized_q
    /\ failed' = IF outcome.ok THEN failed ELSE failed \cup {worker_frame}
    /\ worker_pc' = after_infer(outcome)
    /\ worker_frame' = IF after_infer(outcome) = "recv" THEN 0 ELSE worker_frame
    /\ UNCHANGED << captured, frame_q, comp_pc, recognized,
                    last_received, composed, discarded,
                    dropped_frame, composited_q, last_taken, target_interval, cadVars,
                    gestVars, trkVars, lifeVars >>

(***************************************************************************)
(* Frame compositor (pipeline/compositor.rs).                              *)
(***************************************************************************)
\* variant: the overlay gated by the classifier's floor instead of 0.5
overlay_points_floor(result) ==
    IF result.confidence >= DETECTION_FLOOR
    THEN result.landmarks
    ELSE NoneVal
\* overlay_points(result): Some(points) or None
overlay_points(result) ==
    IF result.confidence >= OVERLAY_CONFIDENCE_THRESHOLD
    THEN result.landmarks
    ELSE NoneVal

\* variant: the slowdown branches without `.min(max_secs)`
adjust_interval_uncapped(current, compose_time, min_i, max_i, dropped) ==
    IF dropped /\ current < max_i
    THEN ScaleDuration(current, SLOWDOWN_FACTOR)
    ELSE IF compose_time > current /\ current < max_i
    THEN ScaleDuration(compose_time, SLOWDOWN_FACTOR)
    ELSE IF ScaleFloor(compose_time, COMFORT_MARGIN) < current /\ current > min_i
    THEN MaxOf(ScaleDuration(current, RECOVERY_FACTOR), min_i)
    ELSE current
\* variant: a slow compose grows the current interval (current_secs *
\* SLOWDOWN_FACTOR) instead of compose_secs * SLOWDOWN_FACTOR
adjust_interval_scale_current(current, compose_time, min_i, max_i, dropped) ==
    IF dropped /\ current < max_i
    THEN MinOf(ScaleDuration(current, SLOWDOWN_FACTOR), max_i)
    ELSE IF compose_time > current /\ current < max_i
    THEN MinOf(ScaleDuration(current, SLOWDOWN_FACTOR), max_i)
    ELSE IF ScaleFloor(compose_time, COMFORT_MARGIN) < current /\ current > min_i
    THEN MaxOf(ScaleDuration(current, RECOVERY_FACTOR), min_i)
    ELSE current
\* variant: the recovery branch without `.max(min_secs)`
adjust_interval_unfloored(current, compose_time, min_i, max_i, dropped) ==
    IF dropped /\ current < max_i
    THEN MinOf(ScaleDuration(current, SLOWDOWN_FACTOR), max_i)
    ELSE IF compose_time > current /\ current < max_i
    THEN MinOf(ScaleDuration(compose_time, SLOWDOWN_FACTOR), max_i)
    ELSE IF ScaleFloor(compose_time, COMFORT_MARGIN) < current /\ current > min_i
    THEN ScaleDuration(current, RECOVERY_FACTOR)
    ELSE current
\* adjust_interval(current, compose_time, min_interval, max_interval, dropped_frame)
adjust_interval(current, compose_time, min_i, max_i, dropped) ==
    IF dropped /\ current < max_i
    THEN MinOf(ScaleDuration(current, SLOWDOWN_FACTOR), max_i)
    ELSE IF compose_time > current /\ current < max_i
    THEN MinOf(ScaleDuration(compose_time, SLOWDOWN_FACTOR), max_i)
    ELSE IF ScaleFloor(compose_time, COMFORT_MARGIN) < current /\ current > min_i
    THEN MaxOf(ScaleDuration(current, RECOVERY_FACTOR), min_i)
    ELSE current

\* values of the locals while they hold nothing (moved out or not yet bound)
NoRecognized == [ frame |-> 0,
                  result |-> [ label |-> NO_HAND_LABEL,
                               confidence |-> 0, timestamp |-> 0,
                               landmarks |-> NoneVal, detail |-> FALSE,
                               palm_regions |-> 0 ] ]

\* variant: the drain loop receives the newer item but keeps the first one
recognized_after_drain_keep(rec, newer) == rec
\* the drain loop's `recognized = newer`
recognized_after_drain(rec, newer) == newer

\* `while let Ok(mut recognized) = recognized_rx.recv()`
CompRecv ==
    /\ comp_pc = "recv"
    /\ recognized_q # << >>
    /\ recognized' = RecvMsg(recognized_q)
    /\ recognized_q' = RecvRest(recognized_q)
    /\ last_received' = RecvMsg(recognized_q).frame
    /\ comp_pc' = "drain"
    /\ UNCHANGED << captured, frame_q, worker_pc, worker_frame, last_inferred,
                    composed, discarded, dropped_frame,
                    composited_q, last_taken, target_interval, cadVars,
                    gestVars, trkVars, failed, lifeVars >>

\* `while let Ok(newer) = recognized_rx.try_recv() { recognized = newer }`
CompDrainNewer ==
    /\ comp_pc = "drain"
    /\ recognized_q # << >>
    /\ recognized' = recognized_after_drain(recognized, RecvMsg(recognized_q))
    /\ recognized_q' = RecvRest(recognized_q)
    /\ last_received' = RecvMsg(recognized_q).frame
    /\ discarded' = discarded \cup ({recognized.frame, RecvMsg(recognized_q).frame}
                                    \ {recognized'.frame})
    /\ UNCHANGED << captured, frame_q, worker_pc, worker_frame, last_inferred,
                    comp_pc, composed, dropped_frame,
                    composited_q, last_taken, target_interval, cadVars,
                    gestVars, trkVars, failed, lifeVars >>

\* try_recv found the input empty: the drain loop ends, composing starts
CompDrainDone ==
    /\ comp_pc = "drain"
    /\ recognized_q = << >>
    /\ comp_pc' = "compose"
    /\ UNCHANGED << captured, frame_q, worker_pc, worker_frame, last_inferred,
                    recognized_q, recognized, last_received, composed,
                    discarded, dropped_frame, composited_q, last_taken,
                    target_interval, cadVars,
                    gestVars, trkVars, failed, lifeVars >>

\* compositor_loop lines 46-66: draw the palm boxes when there are palm
\* regions, the skeleton when overlay_points gives points, and build the packet
compose_packet(rec) ==
    [ frame      |-> rec.frame,
      result     |-> rec.result,
      palm_boxes |-> rec.result.palm_regions # 0,
      skeleton   |-> overlay_points(rec.result) # NoneVal ]

\* the rest of the cycle: draw, build the packet, try_send it, adjust the
\* interval, sleep for what is left of the interval
CompCompose(compose_time) ==
    /\ comp_pc = "compose"
    /\ LET dropped == TrySendErr(composited_q, COMPOSITED_CHANNEL_CAP,
                                 display_rx_live)
       IN  /\ composited_q' = IF display_rx_live
                              THEN TrySend(composited_q, COMPOSITED_CHANNEL_CAP,
                                           compose_packet(recognized))
                              ELSE composited_q
           /\ dropped_frame' = dropped
           /\ target_interval' =
                adjust_interval(target_interval, compose_time,
                                min_interval, max_interval, dropped)
    /\ composed' = composed \cup {recognized.frame}
    /\ recognized' = NoRecognized
    /\ comp_pc' = "recv"
    /\ failed_publishes' = IF display_rx_live THEN failed_publishes
                           ELSE failed_publishes + 1
    /\ UNCHANGED << captured, frame_q, worker_pc, worker_frame, last_inferred,
                    recognized_q, last_received, discarded, last_taken, cadVars,
                    gestVars, trkVars, failed, frame_tx_live, queued_at_drop,
                    display_rx_live, setup_failed, camVars >>

(***************************************************************************)
(* Display sink: takes the composited frame out of the output slot.        *)
(***************************************************************************)
SinkTake ==
    /\ display_rx_live
    /\ composited_q # << >>
    /\ last_taken' = RecvMsg(composited_q).frame
    /\ composited_q' = RecvRest(composited_q)
    /\ UNCHANGED << captured, frame_q, worker_pc, worker_frame, last_inferred,
                    recognized_q, comp_pc, recognized, last_received, composed,
                    discarded, dropped_frame, target_interval,
                    cadVars,
                    gestVars, trkVars, failed, lifeVars >>

(***************************************************************************)
(* gesture.rs: the gesture classifier.  Lengths in normalized landmark     *)
(* space and scores are in thousandths (0.08 is 80); wrist positions and   *)
(* spans of the motion tracker are in pixels; timestamps are in ms.        *)
(***************************************************************************)
MOTION_WINDOW == 1200

FingerStates == {"Extended", "HalfBent", "Folded"}

\* handedness_from_score(score)
handedness_from_score_strict(score) ==
    IF score > 500 THEN "Right"
    ELSE IF score > 0 THEN "Left"
    ELSE "Unknown"

handedness_from_score(score) ==
    IF score >= 500 THEN "Right"
    ELSE IF score > 0 THEN "Left"
    ELSE "Unknown"

\* classify_finger, from the three measures it derives from the landmarks:
\* extension = dist_tip - dist_pip, straightness, reach = dist_tip - dist_mcp
classify_finger(m) ==
    IF m.extension > 180 /\ m.straightness > 450 /\ m.reach > 80 THEN "Extended"
    ELSE IF m.extension < 80 \/ m.straightness < 180 \/ m.reach < 50 THEN "Folded"
    ELSE "HalfBent"

\* classify_thumb, from spread, straightness and dist_tip_wrist
classify_thumb(m) ==
    IF m.spread < 160 /\ m.straightness < 250 THEN "Folded"
    ELSE IF m.dist_tip_wrist > 350 /\ m.straightness > 350 THEN "Extended"
    ELSE "HalfBent"

\* classify: the finger_states array
finger_states(h) ==
    << classify_thumb(h.thumb), classify_finger(h.index), classify_finger(h.middle),
       classify_finger(h.ring), classify_finger(h.pinky) >>

extended_count(fs) == Cardinality({ i \in 1..5 : fs[i] = "Extended" })
folded_count(fs) == Cardinality({ i \in 1..5 : fs[i] = "Folded" })

AbsDiff(a, b) == IF a >= b THEN a - b ELSE b - a

\* detect_primary_gesture's predicates; fs is <<thumb, index, middle, ring,
\* pinky>> and p carries thumb_index_gap = distance3(points[4], points[8]),
\* thumb_middle_gap = distance3(points[4], points[12]), thumb_tip_y =
\* points[4][1], index_tip_y = points[8][1] and wrist_y = points[0][1]
finger_heart(fs, p) ==
    /\ p.thumb_index_gap < 80
    /\ folded_count(fs) >= 3
    /\ fs[2] \in {"HalfBent", "Folded"}
    /\ fs[1] \in {"HalfBent", "Folded"}
    /\ AbsDiff(p.thumb_tip_y, p.index_tip_y) < 80

pinch_with_index(fs, p) ==
    /\ p.thumb_index_gap < 120
    /\ fs[3] \in {"Folded", "HalfBent"}
    /\ fs[4] \in {"Folded", "HalfBent"}
    /\ fs[5] \in {"Folded", "HalfBent"}

pinch_with_middle(fs, p) ==
    /\ p.thumb_middle_gap < 120
    /\ fs[2] \in {"Folded", "HalfBent"}
    /\ fs[4] \in {"Folded", "HalfBent"}
    /\ fs[5] \in {"Folded", "HalfBent"}

pinch_like(fs, p) == pinch_with_index(fs, p) \/ pinch_with_middle(fs, p)

ok_like(fs, p) ==
    /\ p.thumb_index_gap < 180
    /\ (fs[3] = "Extended" \/ fs[4] = "Extended")

ilove(fs, p) ==
    /\ fs[1] \in {"Extended", "HalfBent"}
    /\ fs[2] = "Extended"
    /\ fs[3] # "Extended"
    /\ fs[4] # "Extended"
    /\ fs[5] = "Extended"

rock(fs, p) ==
    /\ fs[2] = "Extended"
    /\ fs[5] = "Extended"
    /\ fs[3] # "Extended"
    /\ fs[4] # "Extended"
    /\ fs[1] = "Folded"

victory(fs, p) ==
    /\ fs[2] = "Extended"
    /\ fs[3] = "Extended"
    /\ fs[4] # "Extended"
    /\ fs[5] # "Extended"

point(fs, p) ==
    /\ fs[2] = "Extended"
    /\ fs[3] # "Extended"
    /\ fs[4] # "Extended"
    /\ fs[5] # "Extended"

three(fs, p) ==
    /\ fs[2] = "Extended"
    /\ fs[3] = "Extended"
    /\ fs[4] = "Extended"
    /\ fs[5] # "Extended"

four_any_thumb(fs, p) == extended_count(fs) >= 4

four(fs, p) == extended_count(fs) >= 4 /\ fs[1] # "Extended"

fist(fs, p) == folded_count(fs) >= 4

\* variant: an open palm needs all five fingers Extended
open_palm_all_five(fs, p) == extended_count(fs) >= 5
open_palm(fs, p) == extended_count(fs) >= 4

thumb_up_below(fs, p) ==
    /\ fs[1] = "Extended"
    /\ folded_count(fs) >= 3
    /\ p.thumb_tip_y > p.wrist_y + 80

thumb_up(fs, p) ==
    /\ fs[1] = "Extended"
    /\ folded_count(fs) >= 3
    /\ p.thumb_tip_y + 80 < p.wrist_y

thumb_down(fs, p) ==
    /\ fs[1] = "Extended"
    /\ folded_count(fs) >= 3
    /\ p.thumb_tip_y > p.wrist_y + 80

\* detect_primary_gesture(points, finger_states)
detect_primary_gesture_ok_first(fs, p) ==
    IF finger_heart(fs, p) THEN "FingerHeart"
    ELSE IF ok_like(fs, p) THEN "Ok"
    ELSE IF pinch_like(fs, p) THEN "Pinch"
    ELSE IF ilove(fs, p) THEN "ILoveYou"
    ELSE IF rock(fs, p) THEN "Rock"
    ELSE IF victory(fs, p) THEN "Victory"
    ELSE IF point(fs, p) THEN "Point"
    ELSE IF thumb_up(fs, p) THEN "ThumbUp"
    ELSE IF thumb_down(fs, p) THEN "ThumbDown"
    ELSE IF fist(fs, p) THEN "Fist"
    ELSE IF four(fs, p) THEN "Four"
    ELSE IF open_palm(fs, p) THEN "OpenPalm"
    ELSE IF three(fs, p) THEN "Three"
    ELSE "Unknown"

detect_primary_gesture(fs, p) ==
    IF finger_heart(fs, p) THEN "FingerHeart"
    ELSE IF pinch_like(fs, p) THEN "Pinch"
    ELSE IF ok_like(fs, p) THEN "Ok"
    ELSE IF ilove(fs, p) THEN "ILoveYou"
    ELSE IF rock(fs, p) THEN "Rock"
    ELSE IF victory(fs, p) THEN "Victory"
    ELSE IF point(fs, p) THEN "Point"
    ELSE IF thumb_up(fs, p) THEN "ThumbUp"
    ELSE IF thumb_down(fs, p) THEN "ThumbDown"
    ELSE IF fist(fs, p) THEN "Fist"
    ELSE IF four(fs, p) THEN "Four"
    ELSE IF open_palm(fs, p) THEN "OpenPalm"
    ELSE IF three(fs, p) THEN "Three"
    ELSE "Unknown"

\* detect_secondary(finger_states, points, primary)
detect_secondary_always(fs, p, primary) ==
    IF extended_count(fs) >= 4 THEN Some("OpenPalm")
    ELSE IF folded_count(fs) >= 4 THEN Some("Fist")
    ELSE IF MinOf(p.thumb_index_gap, p.thumb_middle_gap) < 140 THEN Some("Pinch")
    ELSE NoneVal

detect_secondary(fs, p, primary) ==
    IF primary # "Unknown" THEN NoneVal
    ELSE IF extended_count(fs) >= 4 THEN Some("OpenPalm")
    ELSE IF folded_count(fs) >= 4 THEN Some("Fist")
    ELSE IF MinOf(p.thumb_index_gap, p.thumb_middle_gap) < 140 THEN Some("Pinch")
    ELSE NoneVal

\* MotionTracker::update, first half: push_back of the new sample
push_sample(h, wrist, span, now) ==
    Append(h, [ time |-> now, x |-> wrist[1], y |-> wrist[2],
                span |-> MaxOf(span, 1) ])

\* MotionTracker::update, the eviction loop: pop_front while the front is
\* older than MOTION_WINDOW (duration_since saturates at zero)
RECURSIVE evict_at_window(_, _)
evict_at_window(h, now) ==
    IF h # << >> /\ MaxOf(now - Head(h).time, 0) >= MOTION_WINDOW
    THEN evict_at_window(Tail(h), now)
    ELSE h

RECURSIVE evict(_, _)
evict(h, now) ==
    IF h # << >> /\ MaxOf(now - Head(h).time, 0) > MOTION_WINDOW
    THEN evict(Tail(h), now)
    ELSE h

RECURSIVE SumSpan(_)
SumSpan(samples) ==
    IF samples = << >> THEN 0 ELSE Head(samples).span + SumSpan(Tail(samples))

\* norm = avg_span.max(1.0), as the fraction norm_num(samples) / Len(samples)
norm_num(samples) == MaxOf(SumSpan(samples), Len(samples))

SetMax(S) == CHOOSE m \in S : \A v \in S : v <= m
SetMin(S) == CHOOSE m \in S : \A v \in S : m <= v

\* max - min of one coordinate over the window, in pixels
extent_from_origin(samples, axis) ==
    SetMax({ samples[i][axis] : i \in 1..Len(samples) })

extent(samples, axis) ==
    LET vals == { samples[i][axis] : i \in 1..Len(samples) }
    IN  SetMax(vals) - SetMin(vals)

\* span_x > bound / 100 (and span_y): extent / norm > bound / 100
span_exceeds(samples, axis, bound) ==
    extent(samples, axis) * Len(samples) * 100 > bound * norm_num(samples)

\* direction_changes(samples, selector, min_step) with min_step = norm * 0.08:
\* the changes counted from the pair (i, i + 1) on, last_sign being the sign
\* of the latest step that was not skipped
RECURSIVE direction_changes_from(_, _, _, _)
direction_changes_from(samples, axis, i, last_sign) ==
    IF i >= Len(samples) THEN 0
    ELSE LET delta == samples[i + 1][axis] - samples[i][axis]
             small == AbsDiff(delta, 0) * Len(samples) * 100 < 8 * norm_num(samples)
             sign  == IF delta > 0 THEN 1 ELSE -1
         IN  IF small THEN direction_changes_from(samples, axis, i + 1, last_sign)
             ELSE (IF last_sign # 0 /\ sign # last_sign THEN 1 ELSE 0)
                  + direction_changes_from(samples, axis, i + 1, sign)

direction_changes(samples, axis) == direction_changes_from(samples, axis, 1, 0)

\* is_open_palm of MotionTracker::update
is_open_palm(primary) == primary \in {"OpenPalm", "Four", "Unknown"}

\* MotionTracker::update, second half: the motion of the window
motion_of_two_samples(samples, primary) ==
    IF Len(samples) < 2 THEN "Steady"
    ELSE IF /\ span_exceeds(samples, "x", 55)
            /\ direction_changes(samples, "x") >= 2
            /\ is_open_palm(primary) THEN "Fanning"
    ELSE IF /\ span_exceeds(samples, "y", 55)
            /\ direction_changes(samples, "y") >= 2 THEN "VerticalWave"
    ELSE IF span_exceeds(samples, "x", 25) \/ span_exceeds(samples, "y", 25)
         THEN "Moving"
    ELSE "Steady"

motion_of_wave_first(samples, primary) ==
    IF Len(samples) < 3 THEN "Steady"
    ELSE IF /\ span_exceeds(samples, "y", 55)
            /\ direction_changes(samples, "y") >= 2 THEN "VerticalWave"
    ELSE IF /\ span_exceeds(samples, "x", 55)
            /\ direction_changes(samples, "x") >= 2
            /\ is_open_palm(primary) THEN "Fanning"
    ELSE IF span_exceeds(samples, "x", 25) \/ span_exceeds(samples, "y", 25)
         THEN "Moving"
    ELSE "Steady"

motion_of(samples, primary) ==
    IF Len(samples) < 3 THEN "Steady"
    ELSE IF /\ span_exceeds(samples, "x", 55)
            /\ direction_changes(samples, "x") >= 2
            /\ is_open_palm(primary) THEN "Fanning"
    ELSE IF /\ span_exceeds(samples, "y", 55)
            /\ direction_changes(samples, "y") >= 2 THEN "VerticalWave"
    ELSE IF span_exceeds(samples, "x", 25) \/ span_exceeds(samples, "y", 25)
         THEN "Moving"
    ELSE "Steady"

\* MotionTracker::update(point, span, now, primary): the history it leaves
update_history(h, wrist, span, now) == evict(push_sample(h, wrist, span, now), now)

\* classify(raw_landmarks, projected_landmarks, confidence, handedness_score,
\* timestamp) when it returns Some: the GestureDetail
classify_detail(h, handedness_score, samples) ==
    LET fs      == finger_states(h)
        primary == detect_primary_gesture(fs, h)
    IN  [ primary       |-> primary,
          secondary     |-> detect_secondary(fs, h, primary),
          handedness    |-> handedness_from_score(handedness_score),
          finger_states |-> fs,
          motion        |-> motion_of(samples, primary) ]

\* the classifier and its tracker before any call
RestHand ==
    [ thumb  |-> [ spread |-> 300, straightness |-> 900, dist_tip_wrist |-> 500 ],
      index  |-> [ extension |-> 300, straightness |-> 900, reach |-> 300 ],
      middle |-> [ extension |-> 300, straightness |-> 900, reach |-> 300 ],
      ring   |-> [ extension |-> 300, straightness |-> 900, reach |-> 300 ],
      pinky  |-> [ extension |-> 300, straightness |-> 900, reach |-> 300 ],
      thumb_index_gap |-> 250, thumb_middle_gap |-> 250,
      thumb_tip_y |-> 500, index_tip_y |-> 500, wrist_y |-> 500,
      wrist_px |-> << 0, 0 >>, span_px |-> 100 ]

GestIdle ==
    /\ hand = RestHand
    /\ call = NoneVal
    /\ classified = NoneVal
    /\ update_in = NoneVal
    /\ motion = "Steady"
    /\ history = << >>
    /\ clock = 0
    /\ calls = 0

(***************************************************************************)
(* pipeline/recognizer/ort.rs: the hand tracker.  Positions and sides are  *)
(* in pixels, sides returned by estimate_roi in tenths of a pixel, centers *)
(* in halves of a pixel; timestamps in ms; confidences of the tracker and  *)
(* of infer in millionths (0.15 is 150000), products rounded down.         *)
(***************************************************************************)
TRACK_MAX_AGE == 450
TRACK_MIN_CONF == 150000

\* TrackedHand::is_stale(now); duration_since saturates at zero
is_stale_at_threshold(tracked, now) ==
    \/ MaxOf(now - tracked.last_seen, 0) >= TRACK_MAX_AGE
    \/ tracked.confidence < TRACK_MIN_CONF

is_stale(tracked, now) ==
    \/ MaxOf(now - tracked.last_seen, 0) > TRACK_MAX_AGE
    \/ tracked.confidence < TRACK_MIN_CONF

\* estimate_orientation_from_landmarks(points): the angle, kept as the
\* doubled axis vector that atan2 is applied to; None when the axis vanishes
estimate_orientation_from_landmarks(points) ==
    IF Len(points) <= 17 THEN NoneVal
    ELSE LET wrist  == points[1]
             index  == points[6]
             pinky  == points[18]
             axis_x == (index[1] + pinky[1]) - 2 * wrist[1]
             axis_y == (index[2] + pinky[2]) - 2 * wrist[2]
         IN  IF axis_x = 0 /\ axis_y = 0 THEN NoneVal
             ELSE Some(<< axis_x, axis_y >>)

\* TrackedHand::estimate_roi: side, in tenths of a pixel, from the span of
\* the bounding box and the side of the stored transform
roi_side_no_upper_clamp(span, transform_side) ==
    MaxOf(MaxOf(span * 18, transform_side * 7), 800)

roi_side(span, transform_side) ==
    MaxOf(MinOf(MaxOf(span * 18, transform_side * 7), transform_side * 25), 800)

\* TrackedHand::estimate_roi(&self)
estimate_roi(tracked) ==
    IF Len(tracked.projected) < 3 THEN NoneVal
    ELSE LET xs    == { tracked.projected[i][1] : i \in 1..Len(tracked.projected) }
             ys    == { tracked.projected[i][2] : i \in 1..Len(tracked.projected) }
             min_x == SetMin(xs)
             max_x == SetMax(xs)
             min_y == SetMin(ys)
             max_y == SetMax(ys)
             span  == MaxOf(MaxOf(max_x - min_x, max_y - min_y), 1)
             est   == estimate_orientation_from_landmarks(tracked.projected)
         IN  Some([ center2 |-> << min_x + max_x, min_y + max_y >>,
                    side10  |-> roi_side(span, tracked.transform.side),
                    angle   |-> IF est = NoneVal THEN tracked.transform.angle
                                ELSE CHOOSE a \in est : TRUE ])

\* HandTracker::update(transform, projected, confidence, now): the new `last`
tracker_update_keep_best(last, transform, projected, confidence, now) ==
    IF projected = << >> THEN NoneVal
    ELSE Some([ transform  |-> transform,
                projected  |-> projected,
                confidence |-> IF last = NoneVal THEN confidence
                               ELSE MaxOf(confidence,
                                          (CHOOSE t \in last : TRUE).confidence),
                last_seen  |-> now ])

tracker_update(last, transform, projected, confidence, now) ==
    IF projected = << >> THEN NoneVal
    ELSE Some([ transform  |-> transform,
                projected  |-> projected,
                confidence |-> confidence,
                last_seen  |-> now ])

\* HandTracker::estimate_roi(now): None, or the region with the confidence
tracker_estimate_roi_any_age(last, now) ==
    IF last = NoneVal THEN NoneVal
    ELSE LET tracked == CHOOSE t \in last : TRUE
         IN  { [ roi |-> r, score |-> tracked.confidence ] :
                   r \in estimate_roi(tracked) }

tracker_estimate_roi(last, now) ==
    IF last = NoneVal THEN NoneVal
    ELSE LET tracked == CHOOSE t \in last : TRUE
         IN  IF is_stale(tracked, now) THEN NoneVal
             ELSE { [ roi |-> r, score |-> tracked.confidence ] :
                        r \in estimate_roi(tracked) }

\* HandTracker::new, before any call
TrkIdle ==
    /\ tracker = NoneVal
    /\ trk_prev = NoneVal
    /\ trk_call = NoneVal
    /\ trk_read = NoneVal
    /\ trk_now = 0
    /\ trk_calls = 0
    /\ infer_in = NoneVal
    /\ infer_out = NoneVal
    /\ palm_seen = NoneVal
    /\ fallback_run = 0

(***************************************************************************)
(* The pipeline.                                                           *)
(***************************************************************************)
PipeInit ==
    /\ captured = 0
    /\ frame_q = << >>
    /\ worker_pc = "recv"
    /\ worker_frame = 0
    /\ last_inferred = 0
    /\ recognized_q = << >>
    /\ comp_pc = "recv"
    /\ recognized = NoRecognized
    /\ last_received = 0
    /\ composed = {}
    /\ discarded = {}
    /\ dropped_frame = FALSE
    /\ composited_q = << >>
    /\ last_taken = 0
    /\ target_interval = min_interval
    /\ failed = {}
    /\ frame_tx_live = TRUE
    /\ queued_at_drop = 0
    /\ display_rx_live = TRUE
    /\ failed_publishes = 0
    /\ setup_failed = FALSE
    /\ camera_pc = "check"
    /\ stop = FALSE
    /\ stop_pc = "idle"
    /\ sent_at_stop = 0

Init ==
    /\ PipeInit
    /\ cad_phase = "off"
    /\ cad_cycles = 0
    /\ cad_compose = 0
    /\ cad_base = 0
    /\ cad_n = 0
    /\ GestIdle
    /\ TrkIdle

Next ==
    \/ CameraCapture
    \/ WorkerRecv
    \/ WorkerDrainNewer
    \/ WorkerDrainDone
    \/ \E outcome \in InferOutcomes : WorkerInfer(outcome)
    \/ CompRecv
    \/ CompDrainNewer
    \/ CompDrainDone
    \/ \E t \in PipelineComposeTimes : CompCompose(t)
    \/ SinkTake

Spec == Init /\ [][Next]_vars

(***************************************************************************)
(* Cadence: adjust_interval applied cycle after cycle, as compositor_loop  *)
(* applies it (target_interval = adjust_interval(target_interval, ...)),   *)
(* starting from target_interval = min_interval.  In the free phase every  *)
(* cycle draws its compose time and whether the publish was dropped; a     *)
(* hold then fixes one compose time and runs cycles with no dropped        *)
(* publish.                                                                *)
(***************************************************************************)
CadenceInit ==
    /\ PipeInit
    /\ cad_phase = "free"
    /\ cad_cycles = 0
    /\ cad_compose = 0
    /\ cad_base = 0
    /\ cad_n = 0
    /\ GestIdle
    /\ TrkIdle

\* one cycle with compose time c and publish outcome d
CadFreeCycle(c, d) ==
    /\ cad_phase = "free"
    /\ cad_cycles < MaxCycles
    /\ target_interval' =
         adjust_interval(target_interval, c, min_interval, max_interval, d)
    /\ dropped_frame' = d
    /\ cad_compose' = c
    /\ cad_cycles' = cad_cycles + 1
    /\ UNCHANGED << captured, frame_q, worker_pc, worker_frame, last_inferred,
                    recognized_q, comp_pc, recognized, last_received, composed,
                    discarded, composited_q, last_taken, cad_phase, cad_base,
                    cad_n, gestVars, trkVars,
                    failed, lifeVars >>

\* from here on the compose time is held at c and no publish is dropped
CadHoldStart(c) ==
    /\ cad_phase = "free"
    /\ cad_phase' = "hold"
    /\ cad_compose' = c
    /\ cad_base' = target_interval
    /\ cad_n' = 0
    /\ dropped_frame' = FALSE
    /\ UNCHANGED << captured, frame_q, worker_pc, worker_frame, last_inferred,
                    recognized_q, comp_pc, recognized, last_received, composed,
                    discarded, composited_q, last_taken, target_interval,
                    cad_cycles, gestVars, trkVars,
                    failed, lifeVars >>

\* one cycle of the hold; cad_n counts 0, 1, 2, 3, 2, 3, ...
CadHoldCycle ==
    /\ cad_phase = "hold"
    /\ target_interval' =
         adjust_interval(target_interval, cad_compose, min_interval, max_interval,
                         FALSE)
    /\ cad_n' = IF cad_n < 3 THEN cad_n + 1 ELSE 2
    /\ UNCHANGED << captured, frame_q, worker_pc, worker_frame, last_inferred,
                    recognized_q, comp_pc, recognized, last_received, composed,
                    discarded, dropped_frame, composited_q, last_taken,
                    cad_phase, cad_cycles, cad_compose, cad_base, gestVars, trkVars,
                    failed, lifeVars >>

CadenceNext ==
    \/ \E c \in ComposeTimes, d \in BOOLEAN : CadFreeCycle(c, d)
    \/ \E c \in ComposeTimes : CadHoldStart(c)
    \/ CadHoldCycle

\* the compositor keeps cycling while recognized frames keep arriving: the
\* hold's cycles are taken one after the other
Cadence == CadenceInit /\ [][CadenceNext]_vars /\ WF_vars(CadHoldCycle)

(***************************************************************************)
(* Properties of the pipeline (checked under Spec).                        *)
(***************************************************************************)
\* the frames the capture thread has sent so far
SentFrames == { frame_timestamp(k) : k \in 1..captured }
\* the step that ends a compositor cycle (compose, publish, adjust, sleep)
ComposeStep == comp_pc = "compose" /\ comp_pc' # "compose"

\* C1: the frames passed to inference form a strictly increasing subsequence
\* of the frames sent: whenever the worker is about to call infer, its frame
\* was sent by the capture thread and is later than every frame it inferred
\* before (so no frame is inferred twice or after a later one); frames may be
\* skipped.
C1_InferenceOrder ==
    /\ last_inferred \in SentFrames \cup {0}
    /\ worker_pc = "infer" =>
         /\ worker_frame \in SentFrames
         /\ worker_frame > last_inferred
\* frame 1 was inferred, frame 2 was skipped by the drain, frame 3 is next
C1_Witness ==
    worker_pc = "infer" /\ last_inferred = 1 /\ worker_frame = 3

\* C2: the capture -> worker channel and the compositor -> display channel
\* never hold more than one item.
C2_SingleSlot ==
    Len(frame_q) <= 1 /\ Len(composited_q) <= 1
\* both slots are full, the compositor's latest publish was discarded and the
\* capture thread has discarded a frame later than the queued one
C2_Witness ==
    /\ Len(frame_q) = 1 /\ Len(composited_q) = 1
    /\ dropped_frame
    /\ captured > Head(frame_q)

\* C3: a compositor cycle composes the RecognizedFrame it received last; the
\* drain loop ends only on an empty input queue; items overwritten by the
\* drain are never composed.
C3_ComposeLatest ==
    /\ [](comp_pc = "compose" =>
            /\ recognized.frame = last_received
            /\ recognized.frame \notin discarded)
    /\ [](discarded \cap composed = {})
    /\ [][comp_pc = "drain" /\ comp_pc' = "compose" => recognized_q = << >>]_vars
\* composing starts after an item older than the held one was discarded in
\* this same cycle
C3_Witness ==
    /\ comp_pc = "compose"
    /\ \E f \in discarded :
         /\ f < recognized.frame
         /\ \A g \in composed : g < f

C5_TakenMonotonic ==
    /\ \A i \in 1..Len(composited_q) :
         /\ composited_q[i].frame > last_taken
         /\ composited_q[i].result.timestamp > last_taken
    /\ last_taken \in SentFrames \cup {0}
\* the sink took frame 1 and later frames were composed since; one is waiting
C5_Witness ==
    /\ last_taken >= 1
    /\ composited_q # << >>
    /\ Cardinality(composed) >= 3

\* C7 as stated: a cycle whose publish was dropped never shrinks the interval;
\* the new interval is the current one times the slowdown factor, capped at
\* the maximum.
C7_DroppedNeverShrinks ==
    [][ComposeStep /\ dropped_frame' =>
         /\ target_interval' >= target_interval
         /\ target_interval' =
              MinOf(ScaleDuration(target_interval, SLOWDOWN_FACTOR), max_interval)]_vars

\* C10: a published frame has the skeleton drawn exactly when confidence >=
\* 0.5 and landmarks are present, and palm boxes exactly when palm_regions is
\* non-empty; with confidence in [0.2, 0.5) it carries landmarks and a
\* classification and no skeleton.
C10_OverlayGate ==
    \A i \in 1..Len(composited_q) :
      LET p == composited_q[i]
          r == p.result
      IN  /\ p.skeleton <=> (r.confidence >= 500 /\ r.landmarks # NoneVal)
          /\ p.palm_boxes <=> (r.palm_regions > 0)
          /\ (r.confidence >= 200 /\ r.confidence < 500) =>
               (r.landmarks # NoneVal /\ r.detail /\ ~p.skeleton)
\* a published frame with confidence 0.499: palm boxes, landmarks and a
\* classification, no skeleton
C10_Witness ==
    /\ composited_q # << >>
    /\ Head(composited_q).result.confidence = 499
    /\ Head(composited_q).result.detail
    /\ Head(composited_q).result.landmarks # NoneVal
    /\ Head(composited_q).palm_boxes
    /\ ~Head(composited_q).skeleton

(***************************************************************************)
(* Properties of the cadence control (checked under Cadence).              *)
(***************************************************************************)
\* the hold began at the compositor's first cycle with a compose time above
\* the starting interval
HoldAbove ==
    cad_phase = "hold" /\ cad_cycles = 0 /\ cad_compose > cad_base
\* the hold's compose time is well below the interval: compose * 1.5 < min
HoldBelow ==
    cad_phase = "hold" /\ ScaleFloor(cad_compose, COMFORT_MARGIN) < min_interval

\* C6: after every adjustment min_interval <= target_interval <= max_interval.
C6_IntervalBounds ==
    min_interval <= target_interval /\ target_interval <= max_interval
\* a dropped publish has pushed the interval to the cap
C6_Witness ==
    /\ cad_phase = "free" /\ cad_cycles >= 2
    /\ dropped_frame
    /\ target_interval = max_interval

\* C8 as stated: with the compose time held above the starting interval the
\* target interval never decreases, reaches the maximum and then stays there.
C8_ReachesMax ==
    /\ [][HoldAbove => target_interval' >= target_interval]_vars
    /\ (HoldAbove ~> (target_interval = max_interval))
    /\ [][HoldAbove /\ target_interval = max_interval =>
            target_interval' = max_interval]_vars
\* C8 amended: with the compose time held above the starting interval the
\* target interval never decreases, and from the first cycle on it stays at
\* compose_time * 1.25 capped at the maximum (so it reaches the maximum
\* only when compose_time * 1.25 >= max_interval).
C8_SettlesAtScaledCompose ==
    /\ [][HoldAbove => target_interval' >= target_interval]_vars
    /\ [](HoldAbove /\ cad_n >= 1 =>
            target_interval =
              MinOf(ScaleDuration(cad_compose, SLOWDOWN_FACTOR), max_interval))
\* three and more cycles of a hold above the interval, settled below the cap
C8_Witness ==
    /\ HoldAbove /\ cad_n = 3
    /\ target_interval > cad_base
    /\ target_interval < max_interval

\* C9: with the compose time held well below the interval and no dropped
\* publish, from any starting interval the target interval never increases,
\* reaches the minimum, and stays there.
C9_RecoversToMin ==
    /\ [][HoldBelow => target_interval' <= target_interval]_vars
    /\ (HoldBelow ~> (target_interval = min_interval))
    /\ [][HoldBelow /\ target_interval = min_interval =>
            target_interval' = min_interval]_vars
\* a hold that began at the maximum has come down to the minimum
C9_Witness ==
    /\ HoldBelow /\ cad_base = max_interval
    /\ target_interval = min_interval /\ cad_n >= 2

(***************************************************************************)
(* The classifier on its own: GestureClassifier::classify called on one    *)
(* hand, frame after frame, and MotionTracker::update called on its own.   *)
(***************************************************************************)
MaxCalls == 3
MaxUpdates == 4

\* measures that classify_thumb and classify_finger map to each FingerState
ThumbMeasures ==
    { [ spread |-> 300, straightness |-> 900, dist_tip_wrist |-> 500 ],
      [ spread |-> 300, straightness |-> 300, dist_tip_wrist |-> 300 ],
      [ spread |-> 100, straightness |-> 100, dist_tip_wrist |-> 200 ] }
FingerMeasures ==
    { [ extension |-> 300, straightness |-> 900, reach |-> 300 ],
      [ extension |-> 120, straightness |-> 300, reach |-> 100 ],
      [ extension |-> 20, straightness |-> 100, reach |-> 20 ] }

\* the hands classified: every combination of finger measures with gaps on
\* both sides of each threshold; a tip's vertical offset is at most its gap
Hands ==
    { h \in [ thumb : ThumbMeasures, index : FingerMeasures,
              middle : FingerMeasures, ring : FingerMeasures,
              pinky : FingerMeasures,
              thumb_index_gap : {50, 100, 130, 160, 250},
              thumb_middle_gap : {100, 130, 250},
              thumb_tip_y : {400, 500, 600},
              index_tip_y : {400, 500, 600, 700},
              wrist_y : {500}, wrist_px : {<< 0, 0 >>}, span_px : {100} ] :
        /\ h.index_tip_y - h.thumb_tip_y \in {0, 100}
        /\ AbsDiff(h.index_tip_y, h.thumb_tip_y) <= h.thumb_index_gap }

\* thumb extended above the wrist over a closed fist, tips apart
ThumbUpHand ==
    [ RestHand EXCEPT !.index = [ extension |-> 20, straightness |-> 100, reach |-> 20 ],
                      !.middle = [ extension |-> 20, straightness |-> 100, reach |-> 20 ],
                      !.ring = [ extension |-> 20, straightness |-> 100, reach |-> 20 ],
                      !.pinky = [ extension |-> 20, straightness |-> 100, reach |-> 20 ],
                      !.thumb_tip_y = 400, !.index_tip_y = 500 ]

\* index and ring extended, the rest half bent: no primary gesture
LooseHand ==
    [ RestHand EXCEPT !.thumb = [ spread |-> 300, straightness |-> 300,
                                  dist_tip_wrist |-> 300 ],
                      !.middle = [ extension |-> 120, straightness |-> 300, reach |-> 100 ],
                      !.pinky = [ extension |-> 120, straightness |-> 300, reach |-> 100 ] ]

GateHands == { RestHand, ThumbUpHand, LooseHand }
GateConfidences == {0, 199, 200, 900}
GateLengths == {0, 20, 21}
HandednessScores == {0, 300, 500, 1000}
FrameGaps == {400}

\* classify(raw_landmarks, projected_landmarks, confidence, handedness_score,
\* timestamp) on `hand`, the frame arriving gap ms after the previous one
Classify(confidence, raw_len, projected_len, handedness_score, gap) ==
    LET now == clock + gap
    IN  /\ calls < MaxCalls
        /\ calls' = calls + 1
        /\ clock' = now
        /\ call' = Some([ confidence |-> confidence, raw_landmarks |-> raw_len,
                          projected_landmarks |-> projected_len,
                          handedness_score |-> handedness_score,
                          timestamp |-> now ])
        /\ IF classify_some(raw_len, projected_len, confidence)
           THEN LET samples == update_history(history, hand.wrist_px, hand.span_px, now)
                    d       == classify_detail(hand, handedness_score, samples)
                IN  /\ history' = samples
                    /\ classified' = Some(d)
                    /\ motion' = d.motion
                    /\ update_in' = Some([ x |-> hand.wrist_px[1], y |-> hand.wrist_px[2],
                                           span |-> hand.span_px, time |-> now,
                                           primary |-> d.primary ])
           ELSE /\ classified' = NoneVal
                /\ UNCHANGED << history, motion, update_in >>
        /\ UNCHANGED << pipeVars, target_interval, cadVars, trkVars, hand >>

ClassifierInit ==
    /\ PipeInit
    /\ cad_phase = "off"
    /\ cad_cycles = 0
    /\ cad_compose = 0
    /\ cad_base = 0
    /\ cad_n = 0
    /\ hand \in Hands
    /\ call = NoneVal
    /\ classified = NoneVal
    /\ update_in = NoneVal
    /\ motion = "Steady"
    /\ history = << >>
    /\ clock = 0
    /\ calls = 0
    /\ TrkIdle

ClassifierNext ==
    \E confidence \in {800, 900}, gap \in FrameGaps :
        Classify(confidence, LANDMARK_COUNT, LANDMARK_COUNT, 500, gap)

\* every hand of Hands, classified at a confidence well above the floor
Classifier == ClassifierInit /\ [][ClassifierNext]_vars

GateInit ==
    /\ PipeInit
    /\ cad_phase = "off"
    /\ cad_cycles = 0
    /\ cad_compose = 0
    /\ cad_base = 0
    /\ cad_n = 0
    /\ hand \in GateHands
    /\ call = NoneVal
    /\ classified = NoneVal
    /\ update_in = NoneVal
    /\ motion = "Steady"
    /\ history = << >>
    /\ clock = 0
    /\ calls = 0
    /\ TrkIdle

GateNext ==
    \E confidence \in GateConfidences, raw_len \in GateLengths,
       projected_len \in GateLengths, handedness_score \in HandednessScores,
       gap \in FrameGaps :
        Classify(confidence, raw_len, projected_len, handedness_score, gap)

\* three hands, classified at confidences, landmark counts and handedness
\* scores on both sides of each threshold
Gate == GateInit /\ [][GateNext]_vars

\* wrist positions, pixels, of a hand 100 px across
WristPoints == { << 0, 0 >>, << 40, 0 >>, << 100, 0 >>, << 0, 100 >>, << 100, 100 >> }
UpdateGaps == {400, 800, 900}
UpdatePrimaries == {"OpenPalm", "Four", "Unknown", "Fist"}

\* MotionTracker::update(point, span, now, primary), gap ms after the
\* previous update
MotionUpdate(wrist, span, gap, primary) ==
    LET now     == clock + gap
        samples == update_history(history, wrist, span, now)
    IN  /\ calls < MaxUpdates
        /\ calls' = calls + 1
        /\ clock' = now
        /\ history' = samples
        /\ motion' = motion_of(samples, primary)
        /\ update_in' = Some([ x |-> wrist[1], y |-> wrist[2], span |-> span,
                               time |-> now, primary |-> primary ])
        /\ UNCHANGED << pipeVars, target_interval, cadVars, trkVars, hand, call, classified >>

MotionInit ==
    /\ PipeInit
    /\ cad_phase = "off"
    /\ cad_cycles = 0
    /\ cad_compose = 0
    /\ cad_base = 0
    /\ cad_n = 0
    /\ GestIdle
    /\ TrkIdle

MotionNext ==
    \E wrist \in WristPoints, gap \in UpdateGaps, primary \in UpdatePrimaries :
        MotionUpdate(wrist, 100, gap, primary)

Motion == MotionInit /\ [][MotionNext]_vars

(***************************************************************************)
(* Properties of classify (checked under Gate and Classifier).             *)
(***************************************************************************)
AllExtended == << "Extended", "Extended", "Extended", "Extended", "Extended" >>
ThumbOverFist == << "Extended", "Folded", "Folded", "Folded", "Folded" >>

\* C11: classify returns None exactly when the confidence is below 0.2 or
\* the raw or the projected landmarks number fewer than 21; at confidence
\* exactly 0.2 with 21 points of each it returns a detail.
C11_NoneIffGated ==
    \A c \in call :
        (classified = NoneVal) <=>
            (c.confidence < 200 \/ c.raw_landmarks < 21 \/ c.projected_landmarks < 21)

C11_Witness ==
    \E c \in call :
        /\ c.confidence = 200 /\ c.raw_landmarks = 21 /\ c.projected_landmarks = 21
        /\ classified # NoneVal

\* C15: the handedness label is a step function of the score alone: Right
\* from 0.5 up, Left strictly between 0 and 0.5, Unknown at 0, whatever
\* was classified before.
C15_HandednessStep ==
    \A c \in call : \A d \in classified :
        d.handedness = IF c.handedness_score >= 500 THEN "Right"
                       ELSE IF c.handedness_score > 0 THEN "Left"
                       ELSE "Unknown"

C15_Witness ==
    \E c \in call : \E d \in classified :
        /\ calls = MaxCalls /\ Len(history) >= 2
        /\ c.handedness_score = 500 /\ d.handedness = "Right"

\* C12: the primary gesture is the first predicate that holds in the order
\* finger heart, pinch, ok, I-love-you, rock, victory, point, thumb up,
\* thumb down, fist, four, open palm, three; it is Unknown only when none
\* holds.
C12_FirstPredicateWins ==
    \A d \in classified :
        LET fs    == d.finger_states
            kinds == << "FingerHeart", "Pinch", "Ok", "ILoveYou", "Rock",
                        "Victory", "Point", "ThumbUp", "ThumbDown", "Fist",
                        "Four", "OpenPalm", "Three" >>
            holds == << finger_heart(fs, hand), pinch_like(fs, hand),
                        ok_like(fs, hand), ilove(fs, hand), rock(fs, hand),
                        victory(fs, hand), point(fs, hand), thumb_up(fs, hand),
                        thumb_down(fs, hand), fist(fs, hand), four(fs, hand),
                        open_palm(fs, hand), three(fs, hand) >>
            true_at == { k \in 1..13 : holds[k] }
        IN  /\ \A k \in true_at :
                (\A j \in true_at : k <= j) => d.primary = kinds[k]
            /\ (d.primary = "Unknown") <=> (true_at = {})

C12_Witness ==
    \E d \in classified :
        /\ pinch_like(d.finger_states, hand)
        /\ ok_like(d.finger_states, hand)
        /\ d.primary = "Pinch"

\* C13 as stated: a hand with the thumb Extended, its tip 0.1 above the
\* wrist, and the four other fingers Folded, at confidence 0.8, is ThumbUp.
C13_ThumbUpAlways ==
    \A c \in call : \A d \in classified :
        ( /\ c.confidence = 800
          /\ d.finger_states = ThumbOverFist
          /\ hand.thumb_tip_y = hand.wrist_y - 100 )
        => d.primary = "ThumbUp"

\* C13, amended: such a hand is ThumbUp when the thumb tip is at least 0.12
\* away from both the index tip and the middle tip.
C13_ThumbUpWhenTipsApart ==
    \A c \in call : \A d \in classified :
        ( /\ c.confidence = 800
          /\ d.finger_states = ThumbOverFist
          /\ hand.thumb_tip_y = hand.wrist_y - 100
          /\ hand.thumb_index_gap >= 120
          /\ hand.thumb_middle_gap >= 120 )
        => d.primary = "ThumbUp"

C13_Witness ==
    \E c \in call : \E d \in classified :
        /\ c.confidence = 800
        /\ d.finger_states = ThumbOverFist
        /\ hand.thumb_tip_y = hand.wrist_y - 100
        /\ hand.thumb_index_gap >= 120
        /\ hand.thumb_middle_gap >= 120
        /\ d.primary = "ThumbUp"

\* C14: a static hand with all five fingers Extended and spread (the thumb
\* tip at least 0.18 from the index tip), classified again and again at
\* confidence 0.9 and handedness score 0.5, is OpenPalm, Right and Steady
\* on every call.
C14_StaticOpenPalm ==
    \A c \in call : \A d \in classified :
        ( /\ c.confidence = 900
          /\ c.handedness_score = 500
          /\ d.finger_states = AllExtended
          /\ hand.thumb_index_gap >= 180 )
        => ( /\ d.primary = "OpenPalm"
             /\ d.handedness = "Right"
             /\ d.motion = "Steady" )

C14_Witness ==
    \E c \in call : \E d \in classified :
        /\ c.confidence = 900
        /\ c.handedness_score = 500
        /\ d.finger_states = AllExtended
        /\ hand.thumb_index_gap >= 180
        /\ Len(history) >= 3
        /\ d.primary = "OpenPalm"
        /\ d.motion = "Steady"

\* C16: a detail whose primary gesture is not Unknown has no secondary
\* gesture.
C16_SecondaryOnlyForUnknown ==
    \A d \in classified : d.primary # "Unknown" => d.secondary = NoneVal

C16_Witness ==
    \E d \in classified :
        /\ d.primary = "Pinch"
        /\ MinOf(hand.thumb_index_gap, hand.thumb_middle_gap) < 140
        /\ d.secondary = NoneVal

\* C17: when the primary gesture is Unknown, the secondary guess is OpenPalm
\* if at least three of the five fingers are Extended, otherwise Fist if at
\* least three are Folded, otherwise Pinch if the thumb tip is within 0.14
\* of the index or the middle tip, otherwise None.
C17_MajorityGuess ==
    \A d \in classified :
        d.primary = "Unknown" =>
            d.secondary =
                IF extended_count(d.finger_states) >= 3 THEN Some("OpenPalm")
                ELSE IF folded_count(d.finger_states) >= 3 THEN Some("Fist")
                ELSE IF MinOf(hand.thumb_index_gap, hand.thumb_middle_gap) < 140
                     THEN Some("Pinch")
                ELSE NoneVal

(***************************************************************************)
(* Properties of MotionTracker::update (checked under Motion).             *)
(***************************************************************************)
\* the samples of h no older than MOTION_WINDOW at time now, in h's order
RECURSIVE InsideWindow(_, _)
InsideWindow(h, now) ==
    IF h = << >> THEN << >>
    ELSE IF now - Head(h).time <= 1200
         THEN << Head(h) >> \o InsideWindow(Tail(h), now)
         ELSE InsideWindow(Tail(h), now)

LargeSwing(axis) ==
    span_exceeds(history, axis, 55) /\ direction_changes(history, axis) >= 2

\* C18: an update that leaves fewer than 3 samples in the window returns
\* Steady, wherever the samples lie.
C18_FewSamplesSteady ==
    (update_in # NoneVal /\ Len(history) < 3) => motion = "Steady"

C18_Witness ==
    /\ calls >= 3
    /\ Len(history) = 2
    /\ span_exceeds(history, "x", 55)
    /\ motion = "Steady"

\* C19: an update leaves in the history exactly the samples of the earlier
\* history and the new sample that are no older than 1.2 s at the update's
\* timestamp, in arrival order, the new sample last.
C19_WindowKept ==
    [][ \A u \in update_in' :
            LET sample == [ time |-> u.time, x |-> u.x, y |-> u.y,
                            span |-> MaxOf(u.span, 1) ]
            IN  /\ history' = InsideWindow(Append(history, sample), u.time)
                /\ history'[Len(history')] = sample ]_vars

C19_Witness ==
    /\ calls > Len(history)
    /\ Len(history) >= 2
    /\ clock - Head(history).time = 1200

\* C20: Fanning is returned only under an open-hand-like primary with a
\* large horizontal span and at least 2 horizontal reversals; that swing
\* under another primary gives VerticalWave if the vertical condition holds
\* and Moving otherwise; when the Fanning and the VerticalWave conditions
\* both hold, Fanning is returned.
C20_MotionOrder ==
    \A u \in update_in :
        LET open == u.primary \in {"OpenPalm", "Four", "Unknown"}
        IN  /\ motion = "Fanning" => (open /\ LargeSwing("x"))
            /\ (LargeSwing("x") /\ ~open) =>
                   motion = IF LargeSwing("y") THEN "VerticalWave" ELSE "Moving"
            /\ (LargeSwing("x") /\ LargeSwing("y") /\ open) => motion = "Fanning"
            /\ motion = "VerticalWave" => LargeSwing("y")
            /\ motion = "Moving" => ~LargeSwing("y")

C20_Witness ==
    \E u \in update_in :
        /\ u.primary = "OpenPalm"
        /\ LargeSwing("x")
        /\ LargeSwing("y")
        /\ motion = "Fanning"

\* C21: while every sample in the window has the same wrist point and the
\* same scale, each update returns Steady, whatever the number of samples,
\* the timestamps and the primary gesture.
C21_SamePointSteady ==
    ( /\ update_in # NoneVal
      /\ \A i \in 1..Len(history) :
             /\ history[i].x = history[1].x
             /\ history[i].y = history[1].y
             /\ history[i].span = history[1].span )
    => motion = "Steady"

C21_Witness ==
    /\ calls = MaxUpdates
    /\ Len(history) >= 4
    /\ \A i \in 1..Len(history) : history[i].x = 100 /\ history[i].y = 100
    /\ motion = "Steady"

(***************************************************************************)
(* The hand tracker on its own: HandTracker::update and estimate_roi       *)
(* called in any order.                                                    *)
(***************************************************************************)
MaxTrackerCalls == 3

\* 21 projected landmarks around (cx, cy): the bounding box is 4 * s wide
\* and high
HandAt(cx, cy, s) ==
    [ i \in 1..21 |-> << cx + s * (((i * 7) % 5) - 2), cy + s * (((i * 3) % 5) - 2) >> ]

ProjectedSets ==
    { << >>, HandAt(320, 240, 5), HandAt(300, 260, 20), HandAt(320, 240, 50) }
Transforms ==
    { [ center |-> << 320, 240 >>, side |-> s, angle |-> << 0, -2 >> ] :
          s \in {100, 400} }
TrackerConfidences == {149999, 150000, 900000}
UpdateAfter == {0, 200}
ReadAfter == {0, 449, 450, 451}

\* HandTracker::update(transform, projected, confidence, now)
TrackerUpdate(transform, projected, confidence, gap) ==
    LET now == trk_now + gap
    IN  /\ trk_calls < MaxTrackerCalls
        /\ trk_calls' = trk_calls + 1
        /\ trk_now' = now
        /\ trk_prev' = tracker
        /\ tracker' = tracker_update(tracker, transform, projected, confidence, now)
        /\ trk_call' = Some([ transform |-> transform, projected |-> projected,
                              confidence |-> confidence, now |-> now ])
        /\ trk_read' = NoneVal
        /\ UNCHANGED << pipeVars, target_interval, cadVars, gestVars, infer_in,
                        infer_out, palm_seen, fallback_run >>

\* HandTracker::estimate_roi(now)
TrackerEstimate(gap) ==
    LET now == trk_now + gap
    IN  /\ trk_calls < MaxTrackerCalls
        /\ trk_calls' = trk_calls + 1
        /\ trk_now' = now
        /\ trk_read' = Some([ now |-> now, roi |-> tracker_estimate_roi(tracker, now) ])
        /\ UNCHANGED << pipeVars, target_interval, cadVars, gestVars, tracker,
                        trk_prev, trk_call, infer_in, infer_out, palm_seen,
                        fallback_run >>

TrackerInit ==
    /\ PipeInit
    /\ cad_phase = "off"
    /\ cad_cycles = 0
    /\ cad_compose = 0
    /\ cad_base = 0
    /\ cad_n = 0
    /\ GestIdle
    /\ TrkIdle

TrackerNext ==
    \/ \E transform \in Transforms, projected \in ProjectedSets,
          confidence \in TrackerConfidences, gap \in UpdateAfter :
           TrackerUpdate(transform, projected, confidence, gap)
    \/ \E gap \in ReadAfter : TrackerEstimate(gap)

Tracker == TrackerInit /\ [][TrackerNext]_vars

(***************************************************************************)
(* Properties of the hand tracker (checked under Tracker).                 *)
(***************************************************************************)
\* the larger dimension of the bounding box of a point list, in pixels
BoxSpan(points) ==
    LET xs == { points[i][1] : i \in 1..Len(points) }
        ys == { points[i][2] : i \in 1..Len(points) }
    IN  MaxOf(SetMax(xs) - SetMin(xs), SetMax(ys) - SetMin(ys))

\* twice the midpoint of the bounding box of a point list
BoxMid2(points) ==
    LET xs == { points[i][1] : i \in 1..Len(points) }
        ys == { points[i][2] : i \in 1..Len(points) }
    IN  << SetMax(xs) + SetMin(xs), SetMax(ys) + SetMin(ys) >>

\* C22: the tracker holds at most one hand, and after an update it holds
\* exactly that call's transform, landmarks, confidence and time, or
\* nothing when the call's projected points were empty.
C22_UpdateReplaces ==
    /\ Cardinality(tracker) <= 1
    /\ \A c \in trk_call :
          IF c.projected = << >> THEN tracker = NoneVal
          ELSE tracker = { [ transform |-> c.transform, projected |-> c.projected,
                             confidence |-> c.confidence, last_seen |-> c.now ] }

C22_Witness ==
    \E p \in trk_prev : \E t \in tracker : \E c \in trk_call :
        /\ p.confidence > c.confidence
        /\ p.projected # c.projected
        /\ p.transform # c.transform
        /\ p.last_seen < c.now
        /\ t.confidence = c.confidence

\* C23 as stated: an estimate read at an age of exactly 450 ms gives no
\* region; one read at a smaller age with confidence at or above 0.15
\* gives a region.
C23_StaleAtThreshold ==
    \A r \in trk_read : \A t \in tracker :
        /\ r.now - t.last_seen = 450 => r.roi = NoneVal
        /\ (r.now - t.last_seen < 450 /\ t.confidence >= 150000) => r.roi # NoneVal

\* C23, amended: an estimate read at an age above 450 ms gives no region;
\* one read at an age of at most 450 ms, exactly 450 ms included, with
\* confidence at or above 0.15, gives a region.
C23_StaleBeyondThreshold ==
    \A r \in trk_read : \A t \in tracker :
        /\ r.now - t.last_seen > 450 => r.roi = NoneVal
        /\ (r.now - t.last_seen <= 450 /\ t.confidence >= 150000) => r.roi # NoneVal

C23_Witness ==
    \E r \in trk_read : \E t \in tracker :
        /\ r.now - t.last_seen = 450
        /\ t.confidence = 150000
        /\ r.roi # NoneVal

\* C24 as stated: update followed at once by estimate_roi, confidence above
\* the floor, gives a region centered on the midpoint of the bounding box
\* whose side is at least 1.8 times the larger box dimension.
C24_SideCoversExpanded ==
    \A r \in trk_read : \A t \in tracker :
        (r.now = t.last_seen /\ t.confidence > 150000) =>
            /\ r.roi # NoneVal
            /\ \A e \in r.roi :
                  /\ e.roi.center2 = BoxMid2(t.projected)
                  /\ e.roi.side10 >= 18 * BoxSpan(t.projected)

\* C24, amended: the region is centered on the midpoint of the bounding
\* box and its side is 1.8 times the larger box dimension clamped to
\* [0.7, 2.5] times the prior crop side and then to at least 80 px: at
\* least the expanded span only when that span is at most 2.5 times the
\* prior side or at most 80 px.
C24_SideIsClampedExpanded ==
    \A r \in trk_read : \A t \in tracker :
        (r.now = t.last_seen /\ t.confidence > 150000) =>
            /\ r.roi # NoneVal
            /\ \A e \in r.roi :
                  LET expanded == 18 * BoxSpan(t.projected)
                      low      == 7 * t.transform.side
                      high     == 25 * t.transform.side
                  IN  /\ e.roi.center2 = BoxMid2(t.projected)
                      /\ e.score = t.confidence
                      /\ e.roi.side10 >= 800
                      /\ e.roi.side10 <= MaxOf(high, 800)
                      /\ expanded <= MaxOf(high, 800) => e.roi.side10 >= expanded
                      /\ expanded > MaxOf(high, 800) => e.roi.side10 = MaxOf(high, 800)
                      /\ (low <= high /\ low >= 800) => e.roi.side10 >= low

C24_Witness ==
    \E r \in trk_read : \E t \in tracker : \E e \in r.roi :
        /\ r.now = t.last_seen
        /\ e.roi.center2 = BoxMid2(t.projected)
        /\ e.roi.side10 < 18 * BoxSpan(t.projected)
        /\ e.roi.side10 = 25 * t.transform.side

(***************************************************************************)
(* pipeline/recognizer/ort.rs: OrtEngine::infer on successive frames.  The *)
(* palm detector returns Err, no region or one region; the landmark model  *)
(* fails (crop, session run or decode) or decodes 21 landmarks with a      *)
(* confidence, in thousandths, and a handedness score.                     *)
(***************************************************************************)
MaxInfers == 4
\* frames inferred one after the other in Decay
MaxRunInfers == 21

PalmErr == [ ok |-> FALSE, regions |-> << >> ]
PalmRegion(score) ==
    [ score |-> score, center |-> << 320, 240 >>, side |-> 200, angle |-> << 0, -2 >> ]
PalmOutcomes ==
    { PalmErr, [ ok |-> TRUE, regions |-> << >> ] }
    \cup { [ ok |-> TRUE, regions |-> << PalmRegion(s) >> ] : s \in {500000, 1000000} }
ModelErr == [ ok |-> FALSE ]
ModelOutcomes ==
    { ModelErr }
    \cup { [ ok |-> TRUE, landmarks |-> LANDMARK_COUNT, confidence |-> c,
             handedness |-> 500 ] : c \in {100, 1000, 1200} }
FrameAfter == {300, 500}

\* infer: `self.palm_detector.detect(frame).unwrap_or_else(|err| Vec::new())`
detected_regions_keep_last(palm) ==
    IF palm.ok THEN palm.regions ELSE << PalmRegion(1000000) >>

detected_regions(palm) == IF palm.ok THEN palm.regions ELSE << >>

\* infer: `pick_primary_region(&palm_regions).or_else(|| palm_regions.get(0))`
\* for a list of at most one region
selected_region(palm_regions) ==
    IF palm_regions = << >> THEN NoneVal ELSE Some(palm_regions[1])

\* infer: `(confidence * prior_score).clamp(0.0, 1.0)`, times 0.9 on the
\* tracker fallback; confidence in thousandths, the rest in millionths
effective_confidence_damp_first(confidence, prior_score, used_tracking_fallback) ==
    LET product == (confidence * prior_score) \div 1000
        damped  == IF used_tracking_fallback THEN (product * 9) \div 10 ELSE product
    IN  MaxOf(0, MinOf(damped, 1000000))

\* variant: the fallback's confidence is not damped
effective_confidence_undamped(confidence, prior_score, used_tracking_fallback) ==
    MaxOf(0, MinOf((confidence * prior_score) \div 1000, 1000000))

effective_confidence(confidence, prior_score, used_tracking_fallback) ==
    LET clamped == MaxOf(0, MinOf((confidence * prior_score) \div 1000, 1000000))
    IN  IF used_tracking_fallback THEN (clamped * 9) \div 10 ELSE clamped

\* common::project_landmarks_with_transform: the 21 landmarks in frame
\* pixels; the hand spans half the crop
project_landmarks_with_transform(transform) ==
    HandAt(transform.center[1], transform.center[2], transform.side \div 8)

\* infer: the region the crop is taken from, None when there is neither a
\* palm region nor a tracker estimate; positions rounded to the pixel
crop_region(last, palm_regions, now) ==
    LET selected == selected_region(palm_regions)
        tracked  == tracker_estimate_roi(last, now)
    IN  IF selected # NoneVal
        THEN { [ center |-> s.center, side |-> s.side, angle |-> s.angle,
                 prior_score |-> s.score, used_tracking_fallback |-> FALSE ] :
                   s \in selected }
        ELSE { [ center |-> << t.roi.center2[1] \div 2, t.roi.center2[2] \div 2 >>,
                 side |-> t.roi.side10 \div 10, angle |-> t.roi.angle,
                 prior_score |-> t.score, used_tracking_fallback |-> TRUE ] :
                   t \in tracked }

\* variant: a frame without a crop region forgets the tracked hand
infer_forget_on_miss(last, now, palm, model) ==
    LET palm_regions == detected_regions(palm)
        region       == crop_region(last, palm_regions, now)
    IN  IF region = NoneVal
        THEN [ result |-> [ ok |-> TRUE, raw_landmarks |-> 0,
                            projected_landmarks |-> << >>, confidence |-> 0,
                            handedness |-> 0, palm_regions |-> palm_regions ],
               tracker |-> NoneVal, used_tracking_fallback |-> FALSE ]
        ELSE LET r == CHOOSE c \in region : TRUE
             IN  IF ~model.ok
                 THEN [ result |-> [ ok |-> FALSE ], tracker |-> last,
                        used_tracking_fallback |-> r.used_tracking_fallback ]
                 ELSE LET transform  == [ center |-> r.center, side |-> r.side,
                                          angle |-> r.angle ]
                          projected  == project_landmarks_with_transform(transform)
                          confidence == effective_confidence(model.confidence,
                                            r.prior_score, r.used_tracking_fallback)
                      IN  [ result |-> [ ok |-> TRUE,
                                         raw_landmarks |-> model.landmarks,
                                         projected_landmarks |-> projected,
                                         confidence |-> confidence,
                                         handedness |-> model.handedness,
                                         palm_regions |-> palm_regions ],
                            tracker |-> IF model.landmarks > 0
                                        THEN tracker_update(last, transform, projected,
                                                            confidence, now)
                                        ELSE last,
                            used_tracking_fallback |-> r.used_tracking_fallback ]

\* OrtEngine::infer(frame): its Result, the tracker it leaves and whether
\* the crop came from the tracker
infer(last, now, palm, model) ==
    LET palm_regions == detected_regions(palm)
        region       == crop_region(last, palm_regions, now)
    IN  IF region = NoneVal
        THEN [ result |-> [ ok |-> TRUE, raw_landmarks |-> 0,
                            projected_landmarks |-> << >>, confidence |-> 0,
                            handedness |-> 0, palm_regions |-> palm_regions ],
               tracker |-> last, used_tracking_fallback |-> FALSE ]
        ELSE LET r == CHOOSE c \in region : TRUE
             IN  IF ~model.ok
                 THEN [ result |-> [ ok |-> FALSE ], tracker |-> last,
                        used_tracking_fallback |-> r.used_tracking_fallback ]
                 ELSE LET transform  == [ center |-> r.center, side |-> r.side,
                                          angle |-> r.angle ]
                          projected  == project_landmarks_with_transform(transform)
                          confidence == effective_confidence(model.confidence,
                                            r.prior_score, r.used_tracking_fallback)
                      IN  [ result |-> [ ok |-> TRUE,
                                         raw_landmarks |-> model.landmarks,
                                         projected_landmarks |-> projected,
                                         confidence |-> confidence,
                                         handedness |-> model.handedness,
                                         palm_regions |-> palm_regions ],
                            tracker |-> IF model.landmarks > 0
                                        THEN tracker_update(last, transform, projected,
                                                            confidence, now)
                                        ELSE last,
                            used_tracking_fallback |-> r.used_tracking_fallback ]

\* the length of the run of tracker updates made from fallback crops: one
\* more after an update from a fallback crop, none after an update from a
\* palm region, the same after a frame that did not update the tracker
fallback_run_after(run, out) ==
    IF ~out.result.ok \/ out.result.raw_landmarks = 0 THEN run
    ELSE IF out.used_tracking_fallback THEN run + 1
    ELSE 0

\* engine.infer(&frame) on the frame that arrives gap ms after the previous
Infer(gap, palm, model) ==
    LET now == trk_now + gap
        out == infer(tracker, now, palm, model)
    IN  /\ trk_calls < MaxInfers
        /\ trk_calls' = trk_calls + 1
        /\ trk_now' = now
        /\ infer_in' = Some([ now |-> now, palm |-> palm, model |-> model ])
        /\ infer_out' = Some([ result |-> out.result,
                               used_tracking_fallback |-> out.used_tracking_fallback ])
        /\ trk_prev' = tracker
        /\ tracker' = out.tracker
        /\ palm_seen' = IF detected_regions(palm) # << >> THEN Some(now) ELSE palm_seen
        /\ fallback_run' = fallback_run_after(fallback_run, out)
        /\ UNCHANGED << pipeVars, target_interval, cadVars, gestVars, trk_call,
                        trk_read >>

EngineInit ==
    /\ PipeInit
    /\ cad_phase = "off"
    /\ cad_cycles = 0
    /\ cad_compose = 0
    /\ cad_base = 0
    /\ cad_n = 0
    /\ GestIdle
    /\ TrkIdle

EngineNext ==
    \E gap \in FrameAfter, palm \in PalmOutcomes, model \in ModelOutcomes :
        Infer(gap, palm, model)

Engine == EngineInit /\ [][EngineNext]_vars

(***************************************************************************)
(* Properties of infer (checked under Engine).                             *)
(***************************************************************************)
NoPalm == [ ok |-> TRUE, regions |-> << >> ]

\* C25 as stated: no frame timestamped more than 450 ms after the latest
\* frame with a palm detection goes through the tracker fallback.
C25_FallbackWithinGrace ==
    \A o \in infer_out : \A p \in palm_seen :
        o.used_tracking_fallback => trk_now - p <= 450

\* C25, amended: a frame goes through the tracker fallback only when it is
\* timestamped at most 450 ms after the latest frame whose landmarks were
\* decoded, from a palm region or from the fallback itself, and that
\* frame's confidence was at least 0.15.
C25_FallbackWithinAgeOfLastDecode ==
    \A o \in infer_out : \A i \in infer_in :
        o.used_tracking_fallback =>
            /\ detected_regions(i.palm) = << >>
            /\ \E t \in trk_prev :
                  /\ trk_now - t.last_seen <= 450
                  /\ t.confidence >= 150000

C25_Witness ==
    \E o \in infer_out : \E p \in palm_seen : \E t \in trk_prev :
        /\ o.used_tracking_fallback
        /\ trk_now - p > 450
        /\ trk_now - t.last_seen <= 450

\* C26: a returned output has confidence in [0, 1]: the model confidence
\* times the region's prior score, clamped to [0, 1], times 0.9 on the
\* tracker fallback (so at most 0.9 there), and 0 when there is neither a
\* palm region nor a valid tracker estimate.
C26_ConfidenceRange ==
    \A o \in infer_out : \A i \in infer_in :
        o.result.ok =>
            LET palm_found == i.palm.ok /\ i.palm.regions # << >>
                valid      == \E t \in trk_prev :
                                  /\ i.now - t.last_seen <= 450
                                  /\ t.confidence >= 150000
                prior      == IF palm_found THEN i.palm.regions[1].score
                              ELSE (CHOOSE t \in trk_prev : TRUE).confidence
                product    == (i.model.confidence * prior) \div 1000
                clamped    == IF product < 0 THEN 0
                              ELSE IF product > 1000000 THEN 1000000 ELSE product
            IN  /\ o.result.confidence >= 0
                /\ o.result.confidence <= 1000000
                /\ o.used_tracking_fallback => o.result.confidence <= 900000
                /\ (~palm_found /\ ~valid) => o.result.confidence = 0
                /\ palm_found => o.result.confidence = clamped
                /\ (~palm_found /\ valid) => o.result.confidence = (clamped * 9) \div 10

C26_Witness ==
    \E o \in infer_out : \E i \in infer_in :
        /\ o.result.ok
        /\ o.used_tracking_fallback
        /\ i.model.confidence = 1200
        /\ o.result.confidence = 900000

\* C27: a frame whose palm detection failed gets from infer exactly what it
\* would get with an empty detection list: the fallback crop when the
\* tracker has a valid estimate, the no-hand output otherwise; the failure
\* itself never makes infer return Err.
C27_PalmFailureIsEmptyList ==
    \A o \in infer_out : \A i \in infer_in :
        ~i.palm.ok =>
            LET same  == infer(trk_prev, i.now, NoPalm, i.model)
                valid == \E t \in trk_prev :
                             /\ i.now - t.last_seen <= 450
                             /\ t.confidence >= 150000
            IN  /\ o.result = same.result
                /\ tracker = same.tracker
                /\ o.used_tracking_fallback = valid
                /\ ~valid => ( /\ o.result.ok
                               /\ o.result.confidence = 0
                               /\ o.result.raw_landmarks = 0 )
                /\ i.model.ok => o.result.ok

C27_Witness ==
    \E o \in infer_out : \E i \in infer_in :
        /\ ~i.palm.ok
        /\ o.used_tracking_fallback
        /\ o.result.ok
        /\ o.result.raw_landmarks = 21

(***************************************************************************)
(* Error handling in the recognition worker, checked in the pipeline.      *)
(***************************************************************************)
\* infer results that are a detection miss: Ok without a region (no
\* landmarks, confidence 0) or Ok with an effective confidence below 0.2
MissOutputs == { o \in InferOutputs : o.confidence < DETECTION_FLOOR }

\* C28: a detection miss is a result, not an error: when infer returns Ok
\* without a hand (no region and no valid tracker estimate, confidence 0) or
\* with an effective confidence below 0.2, the worker builds a
\* RecognizedFrame for that frame with the no-hand label, no landmarks and
\* no detail and try_sends it: it is queued when the slot is free (a full
\* slot keeps its item), the frame is not counted as failed and the worker
\* goes back to receiving.
C28_MissIsResult ==
    [][ \A o \in MissOutputs :
          WorkerInfer(o) =>
            /\ worker_pc' = "recv"
            /\ worker_frame \notin failed'
            /\ recognized_q # << >> => recognized_q' = recognized_q
            /\ recognized_q = << >> =>
                  /\ Len(recognized_q') = 1
                  /\ recognized_q'[1].frame = worker_frame
                  /\ recognized_q'[1].result.label = NO_HAND_LABEL
                  /\ recognized_q'[1].result.landmarks = NoneVal
                  /\ recognized_q'[1].result.detail = FALSE ]_vars
\* both kinds of miss were emitted: the compositor holds the result of a
\* frame without a region, the queue that of a hand decoded below the floor
C28_Witness ==
    /\ recognized.frame > 0
    /\ recognized.result.confidence = 0
    /\ recognized.result.label = NO_HAND_LABEL
    /\ recognized_q # << >>
    /\ recognized_q[1].frame > recognized.frame
    /\ recognized_q[1].result.confidence = 199
    /\ recognized_q[1].result.label = NO_HAND_LABEL
    /\ recognized_q[1].result.landmarks = NoneVal
    /\ recognized_q[1].frame \notin failed

\* the frames of the packets in a channel
FramesIn(q) == { q[i].frame : i \in 1..Len(q) }

\* C29: a frame whose inference failed (infer returned Err) is skipped: no
\* RecognizedFrame for it is queued, held, composed or displayed, and the
\* worker does not stay on it, it goes on to the next recv.
C29_FailedFrameSkipped ==
    \A f \in failed :
      /\ f <= last_inferred
      /\ f \notin FramesIn(recognized_q)
      /\ recognized.frame # f
      /\ last_received # f
      /\ f \notin composed
      /\ f \notin FramesIn(composited_q)
      /\ last_taken # f
      /\ ~(worker_pc = "infer" /\ worker_frame = f)
\* after a failed frame the worker inferred a later frame and queued its
\* result, a recognized hand
C29_Witness ==
    /\ recognized_q # << >>
    /\ recognized_q[1].result.detail
    /\ \E f \in failed : f < recognized_q[1].frame
    /\ worker_pc = "recv"

(***************************************************************************)
(* Lifecycle: the pipeline with its shutdown.  The capture side drops the  *)
(* frame channel's senders; each loop ends when recv on its input fails.   *)
(***************************************************************************)
\* infer results and compose times of the frames processed while shutting down
LifecycleOutcomes ==
    { InferErr } \cup { o \in InferOutputs : o.confidence = 500 /\ o.palm_regions = 1 }
LifecycleComposeTimes == { 1 * NANOS_PER_MILLI }

\* the capture loop has ended and recog_tx, with every clone of it, is dropped
DropFrameSenders ==
    /\ frame_tx_live
    /\ frame_tx_live' = FALSE
    /\ queued_at_drop' = IF frame_q = << >> THEN 0 ELSE RecvMsg(frame_q)
    /\ UNCHANGED << captured, frame_q, worker_pc, worker_frame, last_inferred,
                    recognized_q, comp_pc, recognized, last_received, composed,
                    discarded, dropped_frame, composited_q, last_taken,
                    target_interval, cadVars, gestVars, trkVars, failed,
                    display_rx_live, failed_publishes, setup_failed, camVars >>

\* the display side drops its Receiver<CompositedFrame>
DropDisplayReceiver ==
    /\ display_rx_live
    /\ display_rx_live' = FALSE
    /\ UNCHANGED << captured, frame_q, worker_pc, worker_frame, last_inferred,
                    recognized_q, comp_pc, recognized, last_received, composed,
                    discarded, dropped_frame, composited_q, last_taken,
                    target_interval, cadVars, gestVars, trkVars, failed,
                    frame_tx_live, queued_at_drop, failed_publishes,
                    setup_failed, camVars >>

\* recv_latest_frame: `frame_rx.recv().ok()?` is None; `while let Some(frame)`
\* ends, run_worker_loop returns and result_tx, which it owns, is dropped
WorkerExit ==
    /\ worker_pc = "recv"
    /\ RecvDisconnected(frame_q, frame_tx_live)
    /\ worker_pc' = "done"
    /\ UNCHANGED << captured, frame_q, worker_frame, last_inferred, recognized_q,
                    comp_pc, recognized, last_received, composed, discarded,
                    dropped_frame, composited_q, last_taken, target_interval,
                    cadVars, gestVars, trkVars, failed, lifeVars >>

\* compositor_loop: `while let Ok(..) = recognized_rx.recv()` ends
CompExit ==
    /\ comp_pc = "recv"
    /\ RecvDisconnected(recognized_q, worker_pc # "done")
    /\ comp_pc' = "done"
    /\ UNCHANGED << captured, frame_q, worker_pc, worker_frame, last_inferred,
                    recognized_q, recognized, last_received, composed, discarded,
                    dropped_frame, composited_q, last_taken, target_interval,
                    cadVars, gestVars, trkVars, failed, lifeVars >>

\* the steps of the worker thread and of the compositor thread
WorkerStep ==
    \/ WorkerRecv
    \/ WorkerDrainNewer
    \/ WorkerDrainDone
    \/ \E outcome \in LifecycleOutcomes : WorkerInfer(outcome)
    \/ WorkerExit
CompStep ==
    \/ CompRecv
    \/ CompDrainNewer
    \/ CompDrainDone
    \/ \E t \in LifecycleComposeTimes : CompCompose(t)
    \/ CompExit

LifecycleNext ==
    \/ CameraCapture
    \/ DropFrameSenders
    \/ DropDisplayReceiver
    \/ WorkerStep
    \/ CompStep
    \/ SinkTake

\* each thread keeps running: an inference or compose call returns, a sleep
\* ends, and a recv that can return does
Lifecycle ==
    /\ Init
    /\ [][LifecycleNext]_vars
    /\ WF_vars(WorkerStep)
    /\ WF_vars(CompStep)

\* C30: once every sender of the frame channel is dropped the worker ends,
\* and once the worker has ended (its result sender dropped with it) the
\* compositor ends; neither waits forever.  A loop ends only with its input
\* queue empty, and the frame that was queued when the senders were dropped
\* is the last frame the worker inferred.
C30_DisconnectEndsLoops ==
    /\ (~frame_tx_live) ~> (worker_pc = "done")
    /\ (worker_pc = "done") ~> (comp_pc = "done")
    /\ [](worker_pc = "done" =>
            /\ frame_q = << >>
            /\ queued_at_drop # 0 => last_inferred = queued_at_drop)
    /\ [](comp_pc = "done" => worker_pc = "done" /\ recognized_q = << >>)
\* both loops have ended after the senders were dropped with a frame still
\* queued; that frame was inferred and its result composed
C30_Witness ==
    /\ worker_pc = "done"
    /\ comp_pc = "done"
    /\ queued_at_drop # 0
    /\ last_inferred = queued_at_drop
    /\ queued_at_drop \in composed

(***************************************************************************)
(* Sends into full single-slot queues, checked in the pipeline.            *)
(***************************************************************************)
\* C33: a try_send into a full single-slot queue does not block (the
\* producer's step is enabled whatever the queue holds), discards the item
\* being sent and leaves the queued item unchanged; this holds for the
\* capture thread, the recognition worker and the compositor.
C33_FullQueueDiscardsSent ==
    /\ [](captured < MaxFrames /\ frame_tx_live => ENABLED CameraCapture)
    /\ [](worker_pc = "infer" =>
            \A o \in InferOutcomes : ENABLED WorkerInfer(o))
    /\ [](comp_pc = "compose" =>
            \A t \in PipelineComposeTimes : ENABLED CompCompose(t))
    /\ [][CameraCapture /\ frame_q # << >> => frame_q' = frame_q]_vars
    /\ [][(\E o \in InferOutputs : WorkerInfer(o)) /\ recognized_q # << >> =>
            recognized_q' = recognized_q /\ worker_pc' = "recv"]_vars
    /\ [][(\E t \in PipelineComposeTimes : CompCompose(t)) /\ composited_q # << >> =>
            composited_q' = composited_q /\ comp_pc' = "recv"]_vars
\* the capture thread and the worker have each lost an item to a full slot:
\* both queues hold an item older than their producer's latest
C33_Witness ==
    /\ frame_q # << >> /\ captured > Head(frame_q)
    /\ recognized_q # << >>
    /\ worker_pc = "recv"
    /\ last_inferred > Head(recognized_q).frame
    /\ last_inferred \notin failed

(***************************************************************************)
(* The slow-compose branch of adjust_interval, checked under Cadence.      *)
(***************************************************************************)
\* a free cycle whose publish was not dropped and whose compose time is above
\* the current interval, itself below the maximum
SlowComposeCycle ==
    /\ cad_phase = "free"
    /\ cad_cycles' = cad_cycles + 1
    /\ ~dropped_frame'
    /\ cad_compose' > target_interval
    /\ target_interval < max_interval

\* C34 as stated: such a cycle sets the interval to the current interval
\* times 1.25, capped at the maximum.
C34_ScalesCurrent ==
    [][SlowComposeCycle =>
         target_interval' =
           MinOf(ScaleDuration(target_interval, SLOWDOWN_FACTOR), max_interval)]_vars
\* C34 amended: such a cycle sets the interval to the measured compose time
\* times 1.25, capped at the maximum; the result is above the current
\* interval.
C34_ScalesComposeTime ==
    [][SlowComposeCycle =>
         /\ target_interval' =
              MinOf(ScaleDuration(cad_compose', SLOWDOWN_FACTOR), max_interval)
         /\ target_interval' > target_interval]_vars
\* the first cycle, compose time 40 ms against the starting 33 ms: the
\* interval is 50 ms, not 41.25 ms
C34_Witness ==
    /\ cad_phase = "free" /\ cad_cycles = 1
    /\ ~dropped_frame
    /\ cad_compose = 40 * NANOS_PER_MILLI
    /\ target_interval = 50 * NANOS_PER_MILLI
    /\ target_interval # ScaleDuration(min_interval, SLOWDOWN_FACTOR)

(***************************************************************************)
(* The secondary gesture's range, checked under Classifier.                *)
(***************************************************************************)
\* C35: the secondary gesture of a GestureDetail is None or Pinch, never
\* OpenPalm and never Fist: a primary of Unknown has fewer than 4 Extended
\* and fewer than 4 Folded fingers.
C35_SecondaryNoneOrPinch ==
    \A d \in classified :
        /\ d.secondary \in { NoneVal, Some("Pinch") }
        /\ d.primary = "Unknown" =>
             /\ extended_count(d.finger_states) < 4
             /\ folded_count(d.finger_states) < 4
\* an Unknown hand with three fingers Extended and the thumb tip near a
\* fingertip: the secondary is Pinch, not OpenPalm
C35_Witness ==
    \E d \in classified :
        /\ d.primary = "Unknown"
        /\ extended_count(d.finger_states) = 3
        /\ d.secondary = Some("Pinch")

(***************************************************************************)
(* Results: build_gesture_result over the outputs of any HandposeEngine,   *)
(* landmark vectors shorter than 21 points included, applied as the worker *)
(* applies it to each inferred frame.                                      *)
(***************************************************************************)
ResultOutputs ==
    { [ok |-> TRUE, raw_landmarks |-> n[1], projected_landmarks |-> n[2],
       confidence |-> c, palm_regions |-> 0] :
        n \in { << LANDMARK_COUNT, LANDMARK_COUNT >>,
                << LANDMARK_COUNT - 1, LANDMARK_COUNT >>,
                << LANDMARK_COUNT, LANDMARK_COUNT - 1 >> },
        c \in { 199, 200, 500 } }

ResultsNext ==
    \/ CameraCapture
    \/ WorkerRecv
    \/ WorkerDrainNewer
    \/ WorkerDrainDone
    \/ \E outcome \in ResultOutputs : WorkerInfer(outcome)
    \/ CompRecv
    \/ CompDrainNewer
    \/ CompDrainDone
    \/ \E t \in LifecycleComposeTimes : CompCompose(t)
    \/ SinkTake

Results == Init /\ [][ResultsNext]_vars

\* the GestureResults the pipeline holds: queued, in the compositor's hands,
\* published
HeldResults ==
    { recognized_q[i].result : i \in 1..Len(recognized_q) }
    \cup { recognized.result }
    \cup { composited_q[i].result : i \in 1..Len(composited_q) }

\* C39: in every GestureResult a detail implies landmarks, landmarks are
\* present exactly when confidence >= 0.2, the label is the no-hand label
\* when confidence < 0.2 and the hand-detected label when confidence >= 0.2
\* without a detail.
C39_ResultShape ==
    \A r \in HeldResults :
        /\ r.detail => r.landmarks # NoneVal
        /\ r.landmarks # NoneVal <=> r.confidence >= 200
        /\ r.confidence < 200 => r.label = NO_HAND_LABEL
        /\ (r.confidence >= 200 /\ ~r.detail) => r.label = HAND_DETECTED_LABEL
\* the three shapes at once: a published result with a detail, one in the
\* compositor's hands for a hand detected without a detail (a short landmark
\* vector at confidence 0.2), and a queued no-hand result at 0.199
C39_Witness ==
    /\ composited_q # << >>
    /\ Head(composited_q).result.detail
    /\ Head(composited_q).result.label = GESTURE_LABEL
    /\ recognized.result.confidence = 200
    /\ ~recognized.result.detail
    /\ recognized.result.label = HAND_DETECTED_LABEL
    /\ recognized.result.landmarks # NoneVal
    /\ recognized_q # << >>
    /\ Head(recognized_q).result.confidence = 199
    /\ Head(recognized_q).result.label = NO_HAND_LABEL

(***************************************************************************)
(* Frame and result stay paired, checked in the pipeline.                  *)
(***************************************************************************)
\* C40: every RecognizedFrame the worker sent and every CompositedFrame the
\* compositor published carries the result computed from its own frame:
\* result.timestamp = frame.timestamp, whatever was dropped or skipped.
C40_ResultOfSameFrame ==
    /\ \A i \in 1..Len(recognized_q) :
         /\ recognized_q[i].frame \in SentFrames
         /\ recognized_q[i].result.timestamp = recognized_q[i].frame
    /\ recognized.result.timestamp = recognized.frame
    /\ \A i \in 1..Len(composited_q) :
         /\ composited_q[i].frame \in SentFrames
         /\ composited_q[i].result.timestamp = composited_q[i].frame
\* after the compositor's drain discarded a recognized frame, the published
\* frame and a later queued one each carry their own result
C40_Witness ==
    /\ discarded # {}
    /\ composited_q # << >>
    /\ Head(composited_q).frame >= 2
    /\ Head(composited_q).result.timestamp = Head(composited_q).frame
    /\ recognized_q # << >>
    /\ Head(recognized_q).frame > Head(composited_q).frame
    /\ Head(recognized_q).result.timestamp = Head(recognized_q).frame

(***************************************************************************)
(* Decay: long runs of inferences, the landmark model's confidence within  *)
(* [0, 1], frames 300 ms apart, the palm detector finding a palm or not.   *)
(***************************************************************************)
\* engine.infer(&frame) on the frame that arrives gap ms after the previous
InferRun(gap, palm, model) ==
    LET now == trk_now + gap
        out == infer(tracker, now, palm, model)
    IN  /\ trk_calls < MaxRunInfers
        /\ trk_calls' = trk_calls + 1
        /\ trk_now' = now
        /\ infer_in' = Some([ now |-> now, palm |-> palm, model |-> model ])
        /\ infer_out' = Some([ result |-> out.result,
                               used_tracking_fallback |-> out.used_tracking_fallback ])
        /\ trk_prev' = tracker
        /\ tracker' = out.tracker
        /\ palm_seen' = IF detected_regions(palm) # << >> THEN Some(now) ELSE palm_seen
        /\ fallback_run' = fallback_run_after(fallback_run, out)
        /\ UNCHANGED << pipeVars, target_interval, cadVars, gestVars, trk_call,
                        trk_read >>

DecayNext ==
    \E palm \in { [ ok |-> TRUE, regions |-> << >> ],
                   [ ok |-> TRUE, regions |-> << PalmRegion(1000000) >> ] },
       model \in { ModelErr,
                   [ ok |-> TRUE, landmarks |-> LANDMARK_COUNT, confidence |-> 1000,
                     handedness |-> 500 ],
                   [ ok |-> TRUE, landmarks |-> LANDMARK_COUNT, confidence |-> 900,
                     handedness |-> 500 ] } :
        InferRun(300, palm, model)

Decay == EngineInit /\ [][DecayNext]_vars

\* C36: a frame decoded through the tracker fallback leaves a stored
\* confidence of at most 0.9 times the one before it and refreshes
\* last_seen; no run of such frames is longer than 19, and after the 19th
\* the stored confidence is below the floor and estimate_roi returns None.
C36_FallbackRunDecays ==
    /\ fallback_run <= 19
    /\ \A o \in infer_out :
         (o.result.ok /\ o.used_tracking_fallback) =>
           \A t \in tracker : \A q \in trk_prev :
             /\ t.confidence * 10 <= q.confidence * 9
             /\ t.last_seen = trk_now
             /\ q.confidence >= TRACK_MIN_CONF
    /\ fallback_run = 19 =>
         \A t \in tracker :
           /\ t.confidence < TRACK_MIN_CONF
           /\ tracker_estimate_roi(tracker, trk_now) = NoneVal
\* the longest run: 19 fallback frames at model confidence 1.0 after a palm
\* detection at confidence 1.0, last_seen fresh, the estimate gone
C36_Witness ==
    /\ fallback_run = 19
    /\ \E o \in infer_out : o.result.ok /\ o.used_tracking_fallback
    /\ \E t \in tracker : t.last_seen = trk_now /\ t.confidence < TRACK_MIN_CONF

(***************************************************************************)
(* Recognizer: the body of run_worker_loop for one frame after the other,  *)
(* with the state it carries from frame to frame: the engine's hand        *)
(* tracker and the classifier's motion history.  The hand shown is `hand`. *)
(***************************************************************************)
\* engine.infer(&frame), then on Ok build_gesture_result, which calls
\* classifier.classify when has_detection
RecognizeFrame(gap, palm, model) ==
    LET now == trk_now + gap
        out == infer(tracker, now, palm, model)
        o   == out.result
    IN  /\ trk_calls < MaxInfers
        /\ trk_calls' = trk_calls + 1
        /\ trk_now' = now
        /\ infer_in' = Some([ now |-> now, palm |-> palm, model |-> model ])
        /\ infer_out' = Some([ result |-> o,
                               used_tracking_fallback |-> out.used_tracking_fallback ])
        /\ trk_prev' = tracker
        /\ tracker' = out.tracker
        /\ palm_seen' = IF detected_regions(palm) # << >> THEN Some(now) ELSE palm_seen
        /\ fallback_run' = fallback_run_after(fallback_run, out)
        /\ IF o.ok /\ build_gesture_result(
                         [ raw_landmarks |-> o.raw_landmarks,
                           projected_landmarks |-> Len(o.projected_landmarks),
                           confidence |-> o.confidence \div 1000,
                           palm_regions |-> Len(o.palm_regions) ], now).detail
           THEN LET samples == update_history(history, hand.wrist_px, hand.span_px, now)
                    d       == classify_detail(hand, o.handedness, samples)
                IN  /\ history' = samples
                    /\ classified' = Some(d)
                    /\ motion' = d.motion
                    /\ update_in' = Some([ x |-> hand.wrist_px[1], y |-> hand.wrist_px[2],
                                           span |-> hand.span_px, time |-> now,
                                           primary |-> d.primary ])
           ELSE /\ classified' = NoneVal
                /\ UNCHANGED << history, motion, update_in >>
        /\ UNCHANGED << pipeVars, target_interval, cadVars, trk_call, trk_read,
                        hand, call, clock, calls >>

RecognizerNext ==
    \E gap \in FrameAfter, palm \in PalmOutcomes, model \in ModelOutcomes :
        RecognizeFrame(gap, palm, model)

Recognizer == EngineInit /\ [][RecognizerNext]_vars

\* C37: a frame whose inference fails, or that has neither a palm region
\* nor a tracker estimate, leaves the hand tracker as it was; a frame for
\* which no classification is made (inference failed, confidence below 0.2
\* or fewer than 21 points) leaves the motion history as it was.
C37_FailedFrameKeepsState ==
    [][ \A o \in infer_out' :
          /\ (~o.result.ok \/ o.result.raw_landmarks = 0) =>
                tracker' = tracker
          /\ (~o.result.ok \/ o.result.confidence < 200000
                \/ o.result.raw_landmarks < 21
                \/ Len(o.result.projected_landmarks) < 21) =>
                history' = history /\ motion' = motion ]_vars
\* the latest frame failed in the landmark model after a hand had been
\* tracked and classified: tracker and history are those of the earlier frame
C37_Witness ==
    /\ \E o \in infer_out : ~o.result.ok
    /\ tracker # NoneVal
    /\ tracker = trk_prev
    /\ \A t \in tracker : t.last_seen < trk_now
    /\ history # << >>
    /\ history[Len(history)].time < trk_now

(***************************************************************************)
(* The compositor without a display, checked under Lifecycle.              *)
(***************************************************************************)
\* C38: with the display's receiver dropped every publish fails and is
\* treated as a dropped frame (the interval is adjusted as under
\* backpressure); the compositor goes on receiving and composing whatever
\* is queued, and ends only when its own input is disconnected.
C38_ComposesWithoutDisplay ==
    /\ [][ComposeStep /\ ~display_rx_live =>
            /\ dropped_frame'
            /\ comp_pc' = "recv"
            /\ recognized.frame \in composed'
            /\ \E t \in LifecycleComposeTimes :
                 target_interval' =
                   adjust_interval(target_interval, t, min_interval,
                                   max_interval, TRUE)]_vars
    /\ [](comp_pc = "done" => worker_pc = "done" /\ ~frame_tx_live)
    /\ (~display_rx_live /\ recognized_q # << >>) ~> (recognized_q = << >>)
\* two publishes have failed on the disconnected channel and the compositor
\* is back at its recv, the worker still running
C38_Witness ==
    /\ ~display_rx_live
    /\ failed_publishes >= 2
    /\ dropped_frame
    /\ comp_pc = "recv"
    /\ worker_pc # "done"
    /\ Cardinality(composed) >= 2

(***************************************************************************)
(* Startup: the pipeline from the moment its threads are spawned.  The     *)
(* worker thread first prepares the two model files and builds the engine  *)
(* (start_worker); each of the three steps can fail.                       *)
(***************************************************************************)
SetupSteps == { "prepare_handpose", "prepare_palm", "load_engine" }

\* variant: a failed step is logged and the thread goes on
after_setup_log_only(pc, ok) ==
    IF pc = "prepare_handpose" THEN "prepare_palm"
    ELSE IF pc = "prepare_palm" THEN "load_engine"
    ELSE "recv"
\* start_worker: where the thread is after a setup step: on Err it logs and
\* returns, on Ok it goes to the next step and at last into run_worker_loop
after_setup(pc, ok) ==
    IF ~ok THEN "done"
    ELSE IF pc = "prepare_handpose" THEN "prepare_palm"
    ELSE IF pc = "prepare_palm" THEN "load_engine"
    ELSE "recv"

\* one setup step of start_worker, succeeding or not
WorkerSetup(ok) ==
    /\ worker_pc \in SetupSteps
    /\ worker_pc' = after_setup(worker_pc, ok)
    /\ setup_failed' = (setup_failed \/ ~ok)
    /\ UNCHANGED << captured, frame_q, worker_frame, last_inferred, recognized_q,
                    comp_pc, recognized, last_received, composed, discarded,
                    dropped_frame, composited_q, last_taken, target_interval,
                    cadVars, gestVars, trkVars, failed, frame_tx_live,
                    queued_at_drop, display_rx_live, failed_publishes, camVars >>

StartupInit ==
    /\ captured = 0
    /\ frame_q = << >>
    /\ worker_pc = "prepare_handpose"
    /\ worker_frame = 0
    /\ last_inferred = 0
    /\ recognized_q = << >>
    /\ comp_pc = "recv"
    /\ recognized = NoRecognized
    /\ last_received = 0
    /\ composed = {}
    /\ discarded = {}
    /\ dropped_frame = FALSE
    /\ composited_q = << >>
    /\ last_taken = 0
    /\ target_interval = min_interval
    /\ failed = {}
    /\ frame_tx_live = TRUE
    /\ queued_at_drop = 0
    /\ display_rx_live = TRUE
    /\ failed_publishes = 0
    /\ setup_failed = FALSE
    /\ camera_pc = "check"
    /\ stop = FALSE
    /\ stop_pc = "idle"
    /\ sent_at_stop = 0
    /\ cad_phase = "off"
    /\ cad_cycles = 0
    /\ cad_compose = 0
    /\ cad_base = 0
    /\ cad_n = 0
    /\ GestIdle
    /\ TrkIdle

StartupNext ==
    \/ \E ok \in BOOLEAN : WorkerSetup(ok)
    \/ LifecycleNext

Startup == StartupInit /\ [][StartupNext]_vars

\* no frame has been received by the worker and no RecognizedFrame exists
NothingRecognized ==
    /\ worker_frame = 0
    /\ last_inferred = 0
    /\ failed = {}
    /\ recognized_q = << >>
    /\ recognized = NoRecognized
    /\ last_received = 0
    /\ composed = {}
    /\ composited_q = << >>

\* C31: when a setup step of the worker fails, the worker thread has ended
\* without receiving a frame and nothing is ever sent on the result
\* channel, no error value either; until setup is over no frame is
\* received.
C31_SetupFailureSendsNothing ==
    /\ setup_failed => worker_pc = "done" /\ NothingRecognized
    /\ worker_pc \in SetupSteps => NothingRecognized
\* the engine failed to load; captured frames were sent meanwhile, one is
\* still queued, and the compositor has ended on its disconnected input
C31_Witness ==
    /\ setup_failed
    /\ worker_pc = "done"
    /\ captured >= 2
    /\ frame_q # << >>
    /\ comp_pc = "done"

(***************************************************************************)
(* Shutdown: the capture thread's loop taken apart at its condition check, *)
(* with the thread that calls CameraStream::stop (or drops the stream).    *)
(* The Relaxed load of the flag reads the latest store.                    *)
(***************************************************************************)
\* `while !stop_flag.load(Ordering::Relaxed)`: into the body, or out of the
\* loop and of the thread
CameraCheck ==
    /\ camera_pc = "check"
    /\ camera_pc' = IF stop THEN "exited" ELSE "iter"
    /\ UNCHANGED << captured, frame_q, worker_pc, worker_frame, last_inferred,
                    recognized_q, comp_pc, recognized, last_received, composed,
                    discarded, dropped_frame, composited_q, last_taken,
                    target_interval, cadVars, gestVars, trkVars, failed,
                    frame_tx_live, queued_at_drop, display_rx_live,
                    failed_publishes, setup_failed, stop, stop_pc, sent_at_stop >>

\* the loop body to its end: frame read, decoded, stamped, try_send
CameraSend ==
    /\ camera_pc = "iter"
    /\ captured < MaxFrames
    /\ captured' = captured + 1
    /\ frame_q' = TrySend(frame_q, FRAME_CHANNEL_CAP, frame_timestamp(captured + 1))
    /\ camera_pc' = "check"
    /\ UNCHANGED << worker_pc, worker_frame, last_inferred,
                    recognized_q, comp_pc, recognized, last_received, composed,
                    discarded, dropped_frame, composited_q, last_taken,
                    target_interval, cadVars, gestVars, trkVars, failed,
                    frame_tx_live, queued_at_drop, display_rx_live,
                    failed_publishes, setup_failed, stop, stop_pc, sent_at_stop >>

\* the loop body left by `continue`: failed read, failed decode, empty buffer
CameraSkip ==
    /\ camera_pc = "iter"
    /\ camera_pc' = "check"
    /\ UNCHANGED << captured, frame_q, worker_pc, worker_frame, last_inferred,
                    recognized_q, comp_pc, recognized, last_received, composed,
                    discarded, dropped_frame, composited_q, last_taken,
                    target_interval, cadVars, gestVars, trkVars, failed,
                    frame_tx_live, queued_at_drop, display_rx_live,
                    failed_publishes, setup_failed, stop, stop_pc, sent_at_stop >>

\* CameraStream::stop / Drop::drop: `self.stop.store(true, Ordering::SeqCst)`
StopStore ==
    /\ stop_pc = "idle"
    /\ stop' = TRUE
    /\ stop_pc' = "joining"
    /\ sent_at_stop' = captured
    /\ UNCHANGED << captured, frame_q, worker_pc, worker_frame, last_inferred,
                    recognized_q, comp_pc, recognized, last_received, composed,
                    discarded, dropped_frame, composited_q, last_taken,
                    target_interval, cadVars, gestVars, trkVars, failed,
                    frame_tx_live, queued_at_drop, display_rx_live,
                    failed_publishes, setup_failed, camera_pc >>

\* variant: stop does not wait for the thread
join_returns_at_once(pc) == TRUE
\* JoinHandle::join returns once the thread has ended
join_returns(pc) == pc = "exited"

\* CameraStream::stop / Drop::drop: `handle.join()` returns, then the call
StopJoin ==
    /\ stop_pc = "joining"
    /\ join_returns(camera_pc)
    /\ stop_pc' = "returned"
    /\ UNCHANGED << captured, frame_q, worker_pc, worker_frame, last_inferred,
                    recognized_q, comp_pc, recognized, last_received, composed,
                    discarded, dropped_frame, composited_q, last_taken,
                    target_interval, cadVars, gestVars, trkVars, failed,
                    frame_tx_live, queued_at_drop, display_rx_live,
                    failed_publishes, setup_failed, camera_pc, stop, sent_at_stop >>

ShutdownNext ==
    \/ CameraCheck
    \/ CameraSend
    \/ CameraSkip
    \/ StopStore
    \/ StopJoin
    \/ WorkerRecv
    \/ WorkerDrainNewer
    \/ WorkerDrainDone
    \/ \E outcome \in LifecycleOutcomes : WorkerInfer(outcome)
    \/ CompRecv
    \/ CompDrainNewer
    \/ CompDrainDone
    \/ \E t \in LifecycleComposeTimes : CompCompose(t)
    \/ SinkTake

Shutdown == Init /\ [][ShutdownNext]_vars

\* C32: once the stop flag is set the capture thread leaves at its next
\* loop-condition check, whichever way the iteration in progress ends, so
\* at most the frame of that iteration is still sent; stop returns only
\* after the thread has ended, and no frame is sent after it has returned.
C32_StopEndsCapture ==
    /\ [][camera_pc = "check" /\ stop /\ camera_pc' # camera_pc =>
            camera_pc' = "exited"]_vars
    /\ [][camera_pc = "iter" /\ camera_pc' # camera_pc =>
            camera_pc' = "check"]_vars
    /\ [](stop => captured <= sent_at_stop + 1)
    /\ [](stop_pc = "returned" => camera_pc = "exited")
    /\ [][stop_pc = "returned" =>
            captured' = captured /\ camera_pc' = "exited"]_vars
\* stop has returned; the iteration that was in progress when the flag was
\* set sent its frame before the thread left
C32_Witness ==
    /\ stop_pc = "returned"
    /\ camera_pc = "exited"
    /\ captured = sent_at_stop + 1
====
